---- MODULE Spec2Model ----
(***************************************************************************)
(* CACD Metadata Analyzer (src/cacd_metadata_analyzer.py): the note store, *)
(* the suggestion engine and the review-file protocol, over a small vault. *)
(*                                                                         *)
(* A text (Python str) is a sequence of one-character strings.  A file is  *)
(* a record: a note file keeps its leading header block apart from the     *)
(* rest of its content (the two '---' delimiters are implicit), any other  *)
(* file is its text.                                                       *)
(***************************************************************************)
EXTENDS Integers, Sequences, FiniteSets, TLC

(***************************************************************************)
(* Characters                                                              *)
(***************************************************************************)
LowerMap ==
    ("A" :> "a") @@ ("B" :> "b") @@ ("C" :> "c") @@ ("D" :> "d") @@ ("E" :> "e") @@ ("F" :> "f") @@ ("G" :> "g") @@ ("H" :> "h") @@ ("I" :> "i") @@ ("J" :> "j") @@ ("K" :> "k") @@ ("L" :> "l") @@ ("M" :> "m") @@ ("N" :> "n") @@ ("O" :> "o") @@ ("P" :> "p") @@ ("Q" :> "q") @@ ("R" :> "r") @@ ("S" :> "s") @@ ("T" :> "t") @@ ("U" :> "u") @@ ("V" :> "v") @@ ("W" :> "w") @@ ("X" :> "x") @@ ("Y" :> "y") @@ ("Z" :> "z") @@ ("Á" :> "á") @@ ("Â" :> "â") @@ ("Ã" :> "ã") @@ ("É" :> "é") @@ ("Ê" :> "ê") @@ ("Í" :> "í") @@ ("Ó" :> "ó") @@ ("Ô" :> "ô") @@ ("Õ" :> "õ") @@ ("Ú" :> "ú") @@ ("Ç" :> "ç")

\* unicodedata.normalize('NFD', c) with the combining marks (category Mn) dropped
UnaccentMap ==
    ("á" :> "a") @@ ("à" :> "a") @@ ("â" :> "a") @@ ("ã" :> "a") @@ ("é" :> "e") @@ ("ê" :> "e") @@ ("í" :> "i") @@ ("ó" :> "o") @@ ("ô" :> "o") @@ ("õ" :> "o") @@ ("ú" :> "u") @@ ("ü" :> "u") @@ ("ç" :> "c") @@ ("Á" :> "A") @@ ("Â" :> "A") @@ ("Ã" :> "A") @@ ("É" :> "E") @@ ("Ê" :> "E") @@ ("Í" :> "I") @@ ("Ó" :> "O") @@ ("Ô" :> "O") @@ ("Õ" :> "O") @@ ("Ú" :> "U") @@ ("Ç" :> "C")

Letters ==
    {"a","b","c","d","e","f","g","h","i","j","k","l","m","n","o","p","q","r","s","t","u","v","w","x","y","z","A","B","C","D","E","F","G","H","I","J","K","L","M","N","O","P","Q","R","S","T","U","V","W","X","Y","Z","á","à","â","ã","é","ê","í","ó","ô","õ","ú","ü","ç","Á","Â","Ã","É","Ê","Í","Ó","Ô","Õ","Ú","Ç"}

Digits == <<"0","1","2","3","4","5","6","7","8","9">>

DigitSet == {Digits[i] : i \in 1..10}

\* regular expression class \w
WordChars == Letters \cup DigitSet \cup {"_"}

\* regular expression class \s, and what str.split() and str.strip() treat as blank
Whitespace == {" ", "\n", "\t", "\r"}

Lower(c) == IF c \in DOMAIN LowerMap THEN LowerMap[c] ELSE c

Unaccent(c) == IF c \in DOMAIN UnaccentMap THEN UnaccentMap[c] ELSE c

(***************************************************************************)
(* Python str operations                                                   *)
(***************************************************************************)
Indices(t) == [i \in 1..Len(t) |-> i]

MinOf(S) == CHOOSE x \in S : \A y \in S : x <= y

MaxOf(S) == CHOOSE x \in S : \A y \in S : y <= x

\* t[i:i+len(p)] == p
MatchAt(t, p, i) ==
    /\ i >= 1
    /\ i + Len(p) - 1 <= Len(t)
    /\ \A k \in 1..Len(p) : t[i + k - 1] = p[k]

\* t.startswith(p)
StartsWith(t, p) == MatchAt(t, p, 1)

\* p in t
Contains(t, p) == \E i \in 1..(Len(t) - Len(p) + 1) : MatchAt(t, p, i)

\* t.lower()
LowerText(t) == [i \in 1..Len(t) |-> Lower(t[i])]

\* t.strip()
Strip(t) ==
    LET keep == {i \in 1..Len(t) : t[i] \notin Whitespace}
    IN  IF keep = {} THEN <<>> ELSE SubSeq(t, MinOf(keep), MaxOf(keep))

\* t.split(sep) for a one-character separator: always at least one piece
Split(t, sep) ==
    LET pos == SelectSeq(Indices(t), LAMBDA i : t[i] = sep)
        n == Len(pos)
        from(k) == IF k = 1 THEN 1 ELSE pos[k - 1] + 1
        to(k) == IF k = n + 1 THEN Len(t) ELSE pos[k] - 1
    IN  [k \in 1..(n + 1) |-> SubSeq(t, from(k), to(k))]

\* t.split(): the maximal runs of non-blank characters
Words(t) ==
    LET starts == SelectSeq(Indices(t),
                    LAMBDA i : t[i] \notin Whitespace /\ (i = 1 \/ t[i - 1] \in Whitespace))
        ends == SelectSeq(Indices(t),
                    LAMBDA i : t[i] \notin Whitespace /\ (i = Len(t) \/ t[i + 1] \in Whitespace))
    IN  [k \in 1..Len(starts) |-> SubSeq(t, starts[k], ends[k])]

\* sep.join(parts), built by halves
RECURSIVE Join(_, _)
Join(parts, sep) ==
    IF parts = <<>> THEN <<>>
    ELSE IF Len(parts) = 1 THEN parts[1]
    ELSE LET half == Len(parts) \div 2
         IN  Join(SubSeq(parts, 1, half), sep) \o sep
             \o Join(SubSeq(parts, half + 1, Len(parts)), sep)

\* str(n) for n >= 0
RECURSIVE IntToText(_)
IntToText(n) ==
    IF n < 10 THEN <<Digits[n + 1]>> ELSE IntToText(n \div 10) \o <<Digits[(n % 10) + 1]>>

DigitValue(c) == (CHOOSE i \in 1..10 : Digits[i] = c) - 1

\* int(t) succeeds: blanks around an unsigned run of digits
IsIntText(t) ==
    LET s == Strip(t) IN s # <<>> /\ \A i \in 1..Len(s) : s[i] \in DigitSet

RECURSIVE DigitsValue(_)
DigitsValue(s) ==
    IF s = <<>> THEN 0 ELSE 10 * DigitsValue(SubSeq(s, 1, Len(s) - 1)) + DigitValue(s[Len(s)])

\* int(t), where IsIntText(t)
IntOfText(t) == DigitsValue(Strip(t))

(***************************************************************************)
(* CACDTaxonomyAnalyzer                                                    *)
(***************************************************************************)
\* Python None where a text (or a list) is expected; no text holds this character
None == <<"None">>

\* a fraction num/den with den > 0, for the float confidence
Frac(n, d) == [num |-> n, den |-> d]

FracLess(a, b) == a.num * b.den < b.num * a.den

\* the taxonomy document: area -> { subarea -> [topic, ...] }, in declaration order
TestTaxonomy ==
    << [area |-> <<"G","e","o","g","r","a","f","i","a">>,
        content |-> << [subarea |-> <<"G","e","o","g","r","a","f","i","a"," ","U","r","b","a","n","a">>,
                        topics |-> << <<"M","e","t","r","o","p","o","l","i","z","a","ç","ã","o">> >>] >>],
       [area |-> <<"E","C","O","N","O","M","I","A">>,
        content |-> << [subarea |-> <<"M","a","c","r","o","e","c","o","n","o","m","i","a">>,
                        topics |-> <<>>] >>] >>

\* a character that is neither \w nor \s becomes a space
Blanked(l) == IF l \in WordChars \/ l \in Whitespace THEN l ELSE " "

\* one character of _normalize_text: accent stripped, lowercased, blanked
NormalizeChar(c) == Blanked(Lower(Unaccent(c)))

\* the characters of category Mn a text may hold on their own: ACUTE stands
\* for U+0301, which NFD leaves as it is
CombiningMarks == {"ACUTE"}

\* the text without its characters of category Mn
Unmarked(text) == SelectSeq(text, LAMBDA c : c \notin CombiningMarks)

\* _normalize_text with the blanks collapsed before the other characters
\* are replaced by blanks
BlankedLast(text) ==
    LET collapsed == Join(Words([i \in 1..Len(text) |-> Lower(Unaccent(text[i]))]), <<" ">>)
    IN  [i \in 1..Len(collapsed) |-> Blanked(collapsed[i])]

\* _normalize_text once the marks are dropped
NormalizeUnmarked(text) ==
    Join(Words([i \in 1..Len(text) |-> NormalizeChar(text[i])]), <<" ">>)

_normalize_text(text) ==
    IF text = <<>> THEN <<>>
    ELSE NormalizeUnmarked(Unmarked(text))

\* ''.join(seqs), built by halves
RECURSIVE Concat(_)
Concat(seqs) ==
    IF seqs = <<>> THEN <<>>
    ELSE IF Len(seqs) = 1 THEN seqs[1]
    ELSE LET half == Len(seqs) \div 2
         IN  Concat(SubSeq(seqs, 1, half)) \o Concat(SubSeq(seqs, half + 1, Len(seqs)))

\* the appends of one loop over words: a (word, triple) pair for each word
WordEntries(ws, triple) == [k \in 1..Len(ws) |-> [word |-> ws[k], triple |-> triple]]

\* the (word, triple) pairs one label adds to the keyword map, in order
LabelEntries(label, triple) ==
    WordEntries(SelectSeq(Words(_normalize_text(label)), LAMBDA w : Len(w) > 2), triple)

SubareaEntries(area, sub) ==
    LabelEntries(sub.subarea, <<area, sub.subarea, None>>)
    \o Concat([k \in 1..Len(sub.topics) |->
                 LabelEntries(sub.topics[k], <<area, sub.subarea, sub.topics[k]>>)])

AreaEntries(a) ==
    LabelEntries(a.area, <<a.area, None, None>>)
    \o Concat([k \in 1..Len(a.content) |-> SubareaEntries(a.area, a.content[k])])

\* the dict of lists the appends build: a sequence of [word, triples] in key
\* insertion order
KeywordIndex(entries) ==
    LET first == SelectSeq(Indices(entries),
                    LAMBDA i : \A j \in 1..(i - 1) : entries[j].word # entries[i].word)
        of(w) == SelectSeq(entries, LAMBDA e : e.word = w)
    IN  [k \in 1..Len(first) |->
            [word |-> entries[first[k]].word,
             triples |-> [m \in 1..Len(of(entries[first[k]].word)) |->
                            of(entries[first[k]].word)[m].triple]]]

_build_keyword_map(tax) == KeywordIndex(Concat([k \in 1..Len(tax) |-> AreaEntries(tax[k])]))

\* keyword_map[word], or the empty list when the word is no key
KeywordTriples(kmap, word) ==
    LET hit == {k \in 1..Len(kmap) : kmap[k].word = word}
    IN  IF hit = {} THEN <<>> ELSE kmap[CHOOSE k \in hit : TRUE].triples

NoClassification == [area |-> None, subarea |-> None, topico |-> None, confidence |-> Frac(0, 1)]

\* BestMatch with the confidence left as score / max(0.1 * n_words, 1)
UncappedMatch(hits, n_words) ==
    LET score(t) == Len(SelectSeq(hits, LAMBDA h : h = t))
        best == CHOOSE i \in 1..Len(hits) :
                    /\ \A j \in 1..Len(hits) : score(hits[j]) <= score(hits[i])
                    /\ \A j \in 1..(i - 1) : score(hits[j]) < score(hits[i])
        d == IF n_words > 10 THEN n_words ELSE 10
    IN  IF hits = <<>> THEN NoClassification
        ELSE [area |-> hits[best][1], subarea |-> hits[best][2], topico |-> hits[best][3],
              confidence |-> Frac(score(hits[best]) * 10, d)]

\* BestMatch where the last of the triples with the greatest counter wins
LastBestMatch(hits, n_words) ==
    LET score(t) == Len(SelectSeq(hits, LAMBDA h : h = t))
        best == CHOOSE i \in 1..Len(hits) :
                    /\ \A j \in 1..Len(hits) : score(hits[j]) <= score(hits[i])
                    /\ \A j \in (i + 1)..Len(hits) : score(hits[j]) < score(hits[i])
        d == IF n_words > 10 THEN n_words ELSE 10
    IN  IF hits = <<>> THEN NoClassification
        ELSE [area |-> hits[best][1], subarea |-> hits[best][2], topico |-> hits[best][3],
              confidence |-> IF score(hits[best]) * 10 >= d THEN Frac(1, 1)
                             ELSE Frac(score(hits[best]) * 10, d)]

\* the best match among the counter increments `hits`, made in this order
BestMatch(hits, n_words) ==
    LET score(t) == Len(SelectSeq(hits, LAMBDA h : h = t))
        \* max() returns the first item of the dict with the greatest counter
        best == CHOOSE i \in 1..Len(hits) :
                    /\ \A j \in 1..Len(hits) : score(hits[j]) <= score(hits[i])
                    /\ \A j \in 1..(i - 1) : score(hits[j]) < score(hits[i])
        d == IF n_words > 10 THEN n_words ELSE 10
    IN  IF hits = <<>> THEN NoClassification
        ELSE [area |-> hits[best][1], subarea |-> hits[best][2], topico |-> hits[best][3],
              confidence |-> IF score(hits[best]) * 10 >= d THEN Frac(1, 1)
                             ELSE Frac(score(hits[best]) * 10, d)]

\* classify_text from `words = normalized_text.split()` on
MatchWords(kmap, words) ==
    BestMatch(Concat([k \in 1..Len(words) |-> KeywordTriples(kmap, words[k])]), Len(words))

\* classify_text from the test of normalized_text on
ClassifyNormalized(kmap, normalized_text) ==
    IF normalized_text = <<>> THEN NoClassification
    ELSE MatchWords(kmap, Words(normalized_text))

classify_text(kmap, text, title) ==
    ClassifyNormalized(kmap, _normalize_text(Strip(title \o <<" ">> \o text)))

(***************************************************************************)
(* CACDTagGenerator                                                        *)
(***************************************************************************)
\* CACDTagGenerator.area_tags, in declaration order
area_tags ==
    <<
      [area |-> <<"L","í","n","g","u","a"," ","P","o","r","t","u","g","u","e","s","a">>,
       tags |-> <<<<"g","r","a","m","á","t","i","c","a">>,
                  <<"o","r","t","o","g","r","a","f","i","a">>,
                  <<"r","e","d","a","ç","ã","o">>,
                  <<"l","i","t","e","r","a","t","u","r","a">>,
                  <<"l","i","n","g","u","í","s","t","i","c","a">>>>],
      [area |-> <<"L","í","n","g","u","a"," ","I","n","g","l","e","s","a">>,
       tags |-> <<<<"i","n","g","l","ê","s">>,
                  <<"t","r","a","d","u","ç","ã","o">>,
                  <<"g","r","a","m","á","t","i","c","a","-","i","n","g","l","e","s","a">>,
                  <<"v","o","c","a","b","u","l","á","r","i","o">>>>],
      [area |-> <<"H","i","s","t","ó","r","i","a"," ","d","o"," ","B","r","a","s","i","l">>,
       tags |-> <<<<"b","r","a","s","i","l">>,
                  <<"c","o","l","ô","n","i","a">>,
                  <<"i","m","p","é","r","i","o">>,
                  <<"r","e","p","ú","b","l","i","c","a">>,
                  <<"p","o","l","í","t","i","c","a","-","b","r","a","s","i","l","e","i","r","a">>>>],
      [area |-> <<"H","i","s","t","ó","r","i","a"," ","M","u","n","d","i","a","l">>,
       tags |-> <<<<"i","n","t","e","r","n","a","c","i","o","n","a","l">>,
                  <<"g","u","e","r","r","a">>,
                  <<"r","e","v","o","l","u","ç","ã","o">>,
                  <<"i","m","p","e","r","i","a","l","i","s","m","o">>,
                  <<"i","d","e","o","l","o","g","i","a">>>>],
      [area |-> <<"P","o","l","í","t","i","c","a"," ","I","n","t","e","r","n","a","c","i","o","n","a","l">>,
       tags |-> <<<<"d","i","p","l","o","m","a","c","i","a">>,
                  <<"r","e","l","a","ç","õ","e","s","-","i","n","t","e","r","n","a","c","i","o","n","a","i","s">>,
                  <<"o","n","u">>,
                  <<"m","e","r","c","o","s","u","l">>,
                  <<"g","e","o","p","o","l","í","t","i","c","a">>>>],
      [area |-> <<"G","e","o","g","r","a","f","i","a">>,
       tags |-> <<<<"t","e","r","r","i","t","ó","r","i","o">>,
                  <<"p","o","p","u","l","a","ç","ã","o">>,
                  <<"e","c","o","n","o","m","i","a","-","e","s","p","a","c","i","a","l">>,
                  <<"m","e","i","o","-","a","m","b","i","e","n","t","e">>,
                  <<"u","r","b","a","n","i","z","a","ç","ã","o">>>>],
      [area |-> <<"E","C","O","N","O","M","I","A">>,
       tags |-> <<<<"m","a","c","r","o","e","c","o","n","o","m","i","a">>,
                  <<"m","i","c","r","o","e","c","o","n","o","m","i","a">>,
                  <<"p","o","l","í","t","i","c","a","-","f","i","s","c","a","l">>,
                  <<"c","o","m","é","r","c","i","o","-","i","n","t","e","r","n","a","c","i","o","n","a","l">>,
                  <<"d","e","s","e","n","v","o","l","v","i","m","e","n","t","o">>>>],
      [area |-> <<"D","I","R","E","I","T","O">>,
       tags |-> <<<<"c","o","n","s","t","i","t","u","c","i","o","n","a","l">>,
                  <<"a","d","m","i","n","i","s","t","r","a","t","i","v","o">>,
                  <<"i","n","t","e","r","n","a","c","i","o","n","a","l","-","p","ú","b","l","i","c","o">>,
                  <<"t","r","a","t","a","d","o","s">>,
                  <<"s","o","b","e","r","a","n","i","a">>>>],
      [area |-> <<"L","Í","N","G","U","A"," ","E","S","P","A","N","H","O","L","A">>,
       tags |-> <<<<"e","s","p","a","n","h","o","l">>,
                  <<"t","r","a","d","u","ç","ã","o","-","e","s","p","a","n","h","o","l">>,
                  <<"a","m","e","r","i","c","a","-","l","a","t","i","n","a">>>>],
      [area |-> <<"L","Í","N","G","U","A"," ","F","R","A","N","C","E","S","A">>,
       tags |-> <<<<"f","r","a","n","c","ê","s">>,
                  <<"t","r","a","d","u","ç","ã","o","-","f","r","a","n","c","ê","s">>,
                  <<"f","r","a","n","c","o","f","o","n","i","a">>>>]
    >>

\* CACDTagGenerator.keyword_tags, in declaration order
keyword_tags ==
    <<
      [keyword |-> <<"c","o","n","s","t","i","t","u","i","ç","ã","o">>,
       tag |-> <<"c","o","n","s","t","i","t","u","c","i","o","n","a","l">>],
      [keyword |-> <<"m","e","r","c","o","s","u","l">>,
       tag |-> <<"i","n","t","e","g","r","a","ç","ã","o","-","r","e","g","i","o","n","a","l">>],
      [keyword |-> <<"o","n","u">>,
       tag |-> <<"m","u","l","t","i","l","a","t","e","r","a","l","i","s","m","o">>],
      [keyword |-> <<"g","u","e","r","r","a">>,
       tag |-> <<"c","o","n","f","l","i","t","o","s">>],
      [keyword |-> <<"p","a","z">>,
       tag |-> <<"p","a","z","-","s","e","g","u","r","a","n","ç","a">>],
      [keyword |-> <<"e","c","o","n","o","m","i","a">>,
       tag |-> <<"a","n","á","l","i","s","e","-","e","c","o","n","ô","m","i","c","a">>],
      [keyword |-> <<"p","o","l","í","t","i","c","a">>,
       tag |-> <<"c","i","ê","n","c","i","a","-","p","o","l","í","t","i","c","a">>],
      [keyword |-> <<"d","i","p","l","o","m","a","c","i","a">>,
       tag |-> <<"a","ç","ã","o","-","d","i","p","l","o","m","á","t","i","c","a">>],
      [keyword |-> <<"t","e","r","r","i","t","ó","r","i","o">>,
       tag |-> <<"g","e","o","g","r","a","f","i","a","-","p","o","l","í","t","i","c","a">>],
      [keyword |-> <<"p","o","p","u","l","a","ç","ã","o">>,
       tag |-> <<"d","e","m","o","g","r","a","f","i","a">>],
      [keyword |-> <<"m","e","i","o"," ","a","m","b","i","e","n","t","e">>,
       tag |-> <<"s","u","s","t","e","n","t","a","b","i","l","i","d","a","d","e">>],
      [keyword |-> <<"b","r","a","s","i","l">>,
       tag |-> <<"b","r","a","s","i","l","-","e","s","t","u","d","o","s">>],
      [keyword |-> <<"d","i","r","e","i","t","o","s"," ","h","u","m","a","n","o","s">>,
       tag |-> <<"d","i","r","e","i","t","o","s","-","h","u","m","a","n","o","s">>],
      [keyword |-> <<"c","o","m","é","r","c","i","o">>,
       tag |-> <<"c","o","m","é","r","c","i","o","-","i","n","t","e","r","n","a","c","i","o","n","a","l">>]
    >>

\* the three patterns \b(w1|w2|w3)\b of generate_tags and the tag each adds
pattern_tags ==
    <<
      [alternatives |-> <<<<"t","r","a","t","a","d","o">>,
                          <<"a","c","o","r","d","o">>,
                          <<"c","o","n","v","e","n","ç","ã","o">>>>,
       tag |-> <<"i","n","s","t","r","u","m","e","n","t","o","s","-","j","u","r","í","d","i","c","o","s">>],
      [alternatives |-> <<<<"g","u","e","r","r","a">>,
                          <<"c","o","n","f","l","i","t","o">>,
                          <<"p","a","z">>>>,
       tag |-> <<"s","e","g","u","r","a","n","ç","a","-","i","n","t","e","r","n","a","c","i","o","n","a","l">>],
      [alternatives |-> <<<<"d","e","s","e","n","v","o","l","v","i","m","e","n","t","o">>,
                          <<"c","r","e","s","c","i","m","e","n","t","o">>,
                          <<"e","c","o","n","ô","m","i","c","o">>>>,
       tag |-> <<"d","e","s","e","n","v","o","l","v","i","m","e","n","t","o","-","e","c","o","n","ô","m","i","c","o">>]
    >>

high_priority_areas ==
    {<<"P","o","l","í","t","i","c","a"," ","I","n","t","e","r","n","a","c","i","o","n","a","l">>,
     <<"H","i","s","t","ó","r","i","a"," ","d","o"," ","B","r","a","s","i","l">>,
     <<"D","I","R","E","I","T","O">>,
     <<"E","C","O","N","O","M","I","A">>,
     <<"G","e","o","g","r","a","f","i","a">>}

\* re.search(r'\b(w1|w2|w3)\b', text): an alternative between two word boundaries
PatternFound(text, alternatives) ==
    \E a \in 1..Len(alternatives) : \E i \in 1..Len(text) :
        LET w == alternatives[a] IN
        /\ MatchAt(text, w, i)
        /\ (i = 1 \/ text[i - 1] \notin WordChars)
        /\ (i + Len(w) - 1 = Len(text) \/ text[i + Len(w)] \notin WordChars)

\* self.area_tags[area][:2], or nothing when the area is None, empty or no key
AreaWords(area) ==
    LET rows == {k \in 1..Len(area_tags) : area_tags[k].area = area}
    IN  IF area = None \/ area = <<>> \/ rows = {} THEN <<>>
        ELSE SubSeq(area_tags[CHOOSE k \in rows : TRUE].tags, 1, 2)

\* tag.split('-') as a set
Hyphenated(tag) == {Split(tag, "-")[m] : m \in 1..Len(Split(tag, "-"))}

\* the set `tags` as generate_tags has built it
TagsFound(combined_text, area_words) ==
    {area_words[k] : k \in {k \in 1..Len(area_words) :
        \E word \in Hyphenated(area_words[k]) : Contains(combined_text, word)}}
    \cup {keyword_tags[k].tag : k \in {k \in 1..Len(keyword_tags) :
            Contains(combined_text, keyword_tags[k].keyword)}}
    \cup {pattern_tags[k].tag : k \in {k \in 1..Len(pattern_tags) :
            PatternFound(combined_text, pattern_tags[k].alternatives)}}

TagSet(text, title, area) == TagsFound(LowerText(title \o <<" ">> \o text), AreaWords(area))

\* the lists of n different members of the set
Arrangements(tags, n) == {l \in [1..n -> tags] : \A i, j \in 1..n : l[i] = l[j] => i = j}

\* list(tags)[:5]: a set has no order the program controls, so every
\* arrangement of at most 5 of its members is a possible result
TagLists(tags) == Arrangements(tags, IF Cardinality(tags) > 5 THEN 5 ELSE Cardinality(tags))

generate_tags(text, title, area) == TagLists(TagSet(text, title, area))


(***************************************************************************)
(* Header values, files and paths                                          *)
(***************************************************************************)
\* a value of a header mapping, tagged with its Python type
StrV(t) == [type |-> "str", v |-> t]

IntV(n) == [type |-> "int", v |-> n]

ListV(l) == [type |-> "list", v |-> l]

NoneV == [type |-> "none", v |-> <<>>]

\* the key is not in the mapping
MissingV == [type |-> "missing", v |-> <<>>]

\* bool(value), also False for a key that is missing
Truthy(val) ==
    CASE val.type = "str" -> val.v # <<>>
      [] val.type = "int" -> val.v # 0
      [] val.type = "list" -> val.v # <<>>
      [] OTHER -> FALSE

\* the keys a header of the vault may hold: the recognised ones and one more
HeaderKeys == {"title", "area", "subarea", "topico", "tags", "relevancia_cacd", "conexoes", "autor"}

EmptyHeader == [k \in HeaderKeys |-> MissingV]

\* dict.update
Update(fm, changes) ==
    [k \in HeaderKeys |-> IF changes[k].type = "missing" THEN fm[k] ELSE changes[k]]

(* A file.  head = "absent": no file at the path.                          *)
(*          head = "none": the content is `rest`; it has no leading header *)
(*                   block (no leading '---', or no second '---').         *)
(*          head = "map": the content is '---' block '---' rest and        *)
(*                   yaml.safe_load(block) or {} is the mapping fm.        *)
(*          head = "bad": as "map", but yaml.safe_load(block) raises       *)
(*                   YAMLError; block is kept as text.                     *)
(*          head = "scalar": as "map", but yaml.safe_load(block) is a      *)
(*                   non-empty value that is no mapping (a str, a list).   *)
File(head, fm, block, rest) == [head |-> head, fm |-> fm, block |-> block, rest |-> rest]

Absent == File("absent", EmptyHeader, <<>>, <<>>)

TextFile(t) == File("none", EmptyHeader, <<>>, t)

HeaderMark == <<"-","-","-">>

\* f.read() where the header block is kept as text
FileText(f) == IF f.head = "none" THEN f.rest ELSE HeaderMark \o f.block \o HeaderMark \o f.rest

\* Path.suffix, Path.stem and Path.with_suffix on a file name
Suffix(p) ==
    LET dots == {i \in 2..Len(p) : p[i] = "."}
    IN  IF dots = {} THEN <<>> ELSE SubSeq(p, MaxOf(dots), Len(p))

Stem(p) == SubSeq(p, 1, Len(p) - Len(Suffix(p)))

with_suffix(p, s) == Stem(p) \o s

MdSuffix == <<".","m","d">>

BakSuffix == <<".","b","a","k">>

ProcessedSuffix == <<".","p","r","o","c","e","s","s","e","d",".","m","d">>

\* config['feedback_file'] and the report's name, both under the vault root
feedback_file == <<"c","a","c","d","_","f","e","e","d","b","a","c","k",".","m","d">>

report_file == <<"c","a","c","d","_","s","t","u","d","y","_","r","e","p","o","r","t",".","m","d">>

\* the notes the user keeps in the vault
UserPaths == << <<"a",".","m","d">>, <<"b",".","m","d">> >>

\* vault_path.rglob("*.md") visits the directory in this order
Listing ==
    UserPaths \o <<feedback_file, with_suffix(feedback_file, ProcessedSuffix), report_file>>

\* every path a file can be at: the listing and the backups beside it
Paths ==
    {Listing[i] : i \in 1..Len(Listing)} \cup {with_suffix(Listing[i], BakSuffix) : i \in 1..Len(Listing)}

Exists(fs, p) == fs[p].head # "absent"

\* Path.rename on POSIX: the target is replaced
Rename(fs, from, to) == [fs EXCEPT ![to] = fs[from], ![from] = Absent]

(***************************************************************************)
(* Note Store                                                              *)
(***************************************************************************)
Note(id, title, content, frontmatter, file_path) ==
    [id |-> id, title |-> title, content |-> content, frontmatter |-> frontmatter,
     file_path |-> file_path]

\* frontmatter.get('title', file_path.stem); a title that is no str is None here
TitleOf(fm, p) ==
    CASE fm["title"].type = "missing" -> Stem(p)
      [] fm["title"].type = "str" -> fm["title"].v
      [] OTHER -> None

\* _load_note: <<note>>, or <<>> for the None it returns when loading raises
_load_note(fs, p) ==
    LET f == fs[p] IN
    CASE f.head = "none" -> <<Note(p, Stem(p), f.rest, EmptyHeader, p)>>
      [] f.head = "map" -> <<Note(p, TitleOf(f.fm, p), Strip(f.rest), f.fm, p)>>
      [] f.head = "bad" -> <<Note(p, Stem(p), FileText(f), EmptyHeader, p)>>
      \* frontmatter.get on a str or a list raises AttributeError
      [] OTHER -> <<>>

\* self.notes[note.id] = note on a dict kept as a sequence in insertion order
Put(store, note) ==
    IF \E i \in 1..Len(store) : store[i].id = note.id
    THEN [i \in 1..Len(store) |-> IF store[i].id = note.id THEN note ELSE store[i]]
    ELSE Append(store, note)

\* the files scan_vault does not skip
Scanned(fs, p) ==
    /\ Exists(fs, p)
    /\ Suffix(p) = MdSuffix
    /\ p[1] # "."
    /\ ~Contains(LowerText(p), <<"t","e","m","p","l","a","t","e">>)

RECURSIVE LoadAll(_, _, _)
LoadAll(store, fs, k) ==
    IF k > Len(Listing) THEN store
    ELSE LET loaded == IF Scanned(fs, Listing[k]) THEN _load_note(fs, Listing[k]) ELSE <<>>
         IN  LoadAll(IF loaded # <<>> THEN Put(store, loaded[1]) ELSE store, fs, k + 1)

\* scan_vault: the store afterwards (it returns its length)
scan_vault(store, fs) == LoadAll(store, fs, 1)

(***************************************************************************)
(* Suggestion Engine                                                       *)
(***************************************************************************)
\* CACDMetadataAnalyzer._default_config, the entries the model reads
relevancia_threshold == Frac(3, 10)

conexoes_max == 3

KeywordMap == _build_keyword_map(TestTaxonomy)

MetadataSuggestion(note_id, area, subarea, topico, tags, relevancia_cacd, conexoes, confidence) ==
    [note_id |-> note_id, area |-> area, subarea |-> subarea, topico |-> topico,
     tags |-> tags, relevancia_cacd |-> relevancia_cacd, conexoes |-> conexoes,
     confidence |-> confidence]

\* `if x:` for a text or a list that may be None
NonEmpty(x) == x # None /\ x # <<>>

\* _has_complete_metadata with subarea among the required fields
RequiresSubarea(note) ==
    \A field \in {"area", "subarea", "relevancia_cacd"} : Truthy(note.frontmatter[field])

_has_complete_metadata(note) ==
    \A field \in {"area", "relevancia_cacd"} : Truthy(note.frontmatter[field])

\* _calculate_relevancia_cacd without the clamp on the way out
UnclampedRelevance(threshold, note, area, confidence) ==
    IF ~NonEmpty(area) \/ FracLess(confidence, threshold) THEN 1
    ELSE 3 + (IF area \in high_priority_areas THEN 1 ELSE 0)
           + (IF FracLess(Frac(7, 10), confidence) THEN 1
              ELSE IF FracLess(confidence, Frac(4, 10)) THEN -1 ELSE 0)
           + (IF Len(note.content) > 1000 THEN 1
              ELSE IF Len(note.content) < 200 THEN -1 ELSE 0)

\* _calculate_relevancia_cacd where config['relevancia_threshold'] is threshold
RelevanceAbove(threshold, note, area, confidence) ==
    IF ~NonEmpty(area) \/ FracLess(confidence, threshold) THEN 1
    ELSE LET base_score == 3
             by_area == IF area \in high_priority_areas THEN 1 ELSE 0
             by_confidence == IF FracLess(Frac(7, 10), confidence) THEN 1
                              ELSE IF FracLess(confidence, Frac(4, 10)) THEN -1 ELSE 0
             by_length == IF Len(note.content) > 1000 THEN 1
                          ELSE IF Len(note.content) < 200 THEN -1 ELSE 0
             total == base_score + by_area + by_confidence + by_length
         IN  IF total < 1 THEN 1 ELSE IF total > 5 THEN 5 ELSE total

_calculate_relevancia_cacd(note, area, confidence) ==
    RelevanceAbove(relevancia_threshold, note, area, confidence)

\* other_note.frontmatter.get(key) == label, where label may be None
HeaderEquals(val, label) ==
    CASE val.type \in {"missing", "none"} -> label = None
      [] val.type = "str" -> val.v = label
      [] OTHER -> FALSE

\* _suggest_connections where config['conexoes_max'] is max
ConnectionsUpTo(max, store, note, area, subarea) ==
    LET similar == SelectSeq(store, LAMBDA other :
                       /\ other.id # note.id
                       /\ \/ HeaderEquals(other.frontmatter["area"], area)
                          \/ HeaderEquals(other.frontmatter["subarea"], subarea))
        \* the loop stops after the append that reaches conexoes_max
        limit == IF max < 1 THEN 1 ELSE max
        n == IF Len(similar) < limit THEN Len(similar) ELSE limit
    IN  [k \in 1..n |-> similar[k].title]

_suggest_connections(store, note, area, subarea) ==
    ConnectionsUpTo(conexoes_max, store, note, area, subarea)

\* analyze_note after classify_text has returned c: the suggestions it may
\* return, one for each order of the tags
Suggest(store, note, c) ==
    {MetadataSuggestion(note.id, c.area, c.subarea, c.topico, tags,
                        IntV(_calculate_relevancia_cacd(note, c.area, c.confidence)),
                        _suggest_connections(store, note, c.area, c.subarea),
                        c.confidence)
     : tags \in generate_tags(note.content, note.title, c.area)}

analyze_note(store, note) ==
    IF _has_complete_metadata(note)
    THEN {MetadataSuggestion(note.id, None, None, None, <<>>, NoneV, <<>>, Frac(1, 1))}
    ELSE Suggest(store, note, classify_text(KeywordMap, note.content, note.title))

(***************************************************************************)
(* Review File Protocol: generation                                        *)
(***************************************************************************)
\* datetime.now().strftime('%Y-%m-%d %H:%M'): the clock is outside the model
Now == <<"2","0","2","6","-","0","1","-","0","1"," ","0","0",":","0","0">>

NL == <<"\n">>

CommaSpace == <<",", " ">>

Unchecked == <<" "," ","-"," ","D","e","c","i","s","ã","o",":"," ","["," ","]">>

Checked == <<" "," ","-"," ","D","e","c","i","s","ã","o",":"," ","[","x","]">>

\* f"{confidence:.2f}"
FormatConfidence(c) ==
    LET cents == (200 * c.num + c.den) \div (2 * c.den)
    IN  IntToText(cents \div 100) \o <<".">> \o IntToText((cents % 100) \div 10)
        \o IntToText(cents % 10)

\* the two lines of one suggested field
FieldLines(label, value) ==
    <<"-"," ","*","*">> \o label \o <<":","*","*"," ">> \o value \o NL \o Unchecked \o NL

\* what the loop body of generate_feedback_file writes for one suggestion;
\* the character BACKTICK stands for U+0060
SectionText(store, s) ==
    LET note == (CHOOSE i \in 1..Len(store) : store[i].id = s.note_id) IN
    <<"#","#"," ","N","o","t","a",":"," ">> \o store[note].title \o NL
    \o <<"*","*","A","r","q","u","i","v","o",":","*","*"," ","BACKTICK">> \o s.note_id
    \o <<"BACKTICK">> \o NL
    \o <<"*","*","C","o","n","f","i","a","n","ç","a",":","*","*"," ">>
    \o FormatConfidence(s.confidence) \o NL \o NL
    \o (IF NonEmpty(s.area) THEN FieldLines(<<"Á","r","e","a">>, s.area) ELSE <<>>)
    \o (IF NonEmpty(s.subarea) THEN FieldLines(<<"S","u","b","á","r","e","a">>, s.subarea) ELSE <<>>)
    \o (IF NonEmpty(s.topico) THEN FieldLines(<<"T","ó","p","i","c","o">>, s.topico) ELSE <<>>)
    \o (IF s.tags # <<>> THEN FieldLines(<<"T","a","g","s">>, Join(s.tags, CommaSpace)) ELSE <<>>)
    \o (IF Truthy(s.relevancia_cacd)
        THEN FieldLines(<<"R","e","l","e","v","â","n","c","i","a"," ","C","A","C","D">>,
                        IntToText(s.relevancia_cacd.v) \o <<"/","5">>)
        ELSE <<>>)
    \o (IF s.conexoes # <<>>
        THEN FieldLines(<<"C","o","n","e","x","õ","e","s">>, Join(s.conexoes, CommaSpace))
        ELSE <<>>)
    \o NL \o HeaderMark \o NL \o NL

ReviewText(store, suggestions) ==
    <<"#"," ","C","A","C","D"," ","-"," ","R","e","v","i","s","ã","o"," ","d","e"," ","M","e","t","a","d","a","d","o","s">>
    \o NL \o NL
    \o <<"G","e","r","a","d","o"," ","e","m",":"," ">> \o Now \o NL \o NL
    \o <<"*","*","I","n","s","t","r","u","ç","õ","e","s",":","*","*"," ","M","a","r","q","u","e"," ","c","o","m"," ","[","x","]"," ","p","a","r","a"," ","a","p","r","o","v","a","r",","," ","["," ","]"," ","p","a","r","a"," ","r","e","j","e","i","t","a","r">>
    \o NL \o NL
    \o Concat([k \in 1..Len(suggestions) |-> SectionText(store, suggestions[k])])

\* the lists suggestions_to_review can be, by the order each note's tags come in
RECURSIVE SuggestionLists(_, _)
SuggestionLists(store, k) ==
    IF k = 0 THEN {<<>>}
    ELSE LET before == SuggestionLists(store, k - 1)
         IN  IF _has_complete_metadata(store[k]) THEN before
             ELSE {IF NonEmpty(s.area) THEN Append(l, s) ELSE l :
                     l \in before, s \in analyze_note(store, store[k])}

\* generate_feedback_file that opens the review file before it looks at the
\* suggestions
WrittenAnyway(store, fs, suggestions) ==
    [fs EXCEPT ![feedback_file] = TextFile(ReviewText(store, suggestions))]

\* generate_feedback_file with suggestions_to_review = suggestions: the files
\* afterwards; it returns True exactly when the list is not empty
generate_feedback_file(store, fs, suggestions) ==
    IF suggestions = <<>> THEN fs
    ELSE [fs EXCEPT ![feedback_file] = TextFile(ReviewText(store, suggestions))]


(***************************************************************************)
(* Review File Protocol: parsing and application                           *)
(***************************************************************************)
\* t.replace(p, '') for a non-empty p
RECURSIVE Remove(_, _)
Remove(t, p) ==
    IF t = <<>> THEN <<>>
    ELSE IF MatchAt(t, p, 1) THEN Remove(SubSeq(t, Len(p) + 1, Len(t)), p)
    ELSE <<t[1]>> \o Remove(Tail(t), p)

\* re.search(r'\*\*(.+?):\*\* (.+)', line): <<group(1), group(2)>>, or <<>> for no match.
\* The leftmost '**' that can start a match, then the shortest label after it
\* that ':** ' and at least one more character follow.
FieldMatch(line) ==
    LET ends(i) == {k \in (i + 3)..(Len(line) - 4) : MatchAt(line, <<":","*","*"," ">>, k)}
        starts == {i \in 1..Len(line) : MatchAt(line, <<"*","*">>, i) /\ ends(i) # {}}
    IN  IF starts = {} THEN <<>>
        ELSE LET i == MinOf(starts)
                 k == MinOf(ends(i))
             IN  <<SubSeq(line, i + 2, k - 1), SubSeq(line, k + 4, Len(line))>>

\* field_mapping of process_feedback_file
field_mapping ==
    << [label |-> <<"á","r","e","a">>, field |-> "area"],
       [label |-> <<"s","u","b","á","r","e","a">>, field |-> "subarea"],
       [label |-> <<"t","ó","p","i","c","o">>, field |-> "topico"],
       [label |-> <<"t","a","g","s">>, field |-> "tags"],
       [label |-> <<"r","e","l","e","v","â","n","c","i","a"," ","c","a","c","d">>, field |-> "relevancia_cacd"],
       [label |-> <<"c","o","n","e","x","õ","e","s">>, field |-> "conexoes"] >>

\* field_mapping[field_name], or "" when field_name is no key
MappedField(field_name) ==
    LET hit == {k \in 1..Len(field_mapping) : field_mapping[k].label = field_name}
    IN  IF hit = {} THEN "" ELSE field_mapping[CHOOSE k \in hit : TRUE].field

\* [x.strip() for x in field_value.split(',')]
CommaList(field_value) ==
    LET parts == Split(field_value, ",") IN [k \in 1..Len(parts) |-> Strip(parts[k])]

\* content.split('\n')[content.split('\n').index(line) - 1] for line = lines[k]:
\* list.index gives the first line with that text, and index -1 is the last line
PreviousLine(lines, k) ==
    LET first == MinOf({j \in 1..Len(lines) : lines[j] = lines[k]})
    IN  IF first = 1 THEN lines[Len(lines)] ELSE lines[first - 1]

\* approved_changes[title][field] = value on a dict of dicts kept as a
\* sequence of [title, changes] in insertion order
Approve(approved, title, field, value) ==
    IF \E i \in 1..Len(approved) : approved[i].title = title
    THEN [i \in 1..Len(approved) |->
            IF approved[i].title = title
            THEN [approved[i] EXCEPT !.changes[field] = value] ELSE approved[i]]
    ELSE Append(approved, [title |-> title, changes |-> [EmptyHeader EXCEPT ![field] = value]])

\* the assignment to approved_changes[current_note][mapped_field], by the type
\* of the field; raised: int() has thrown ValueError
ApproveValue(st, mapped_field, field_value) ==
    CASE mapped_field \in {"tags", "conexoes"} ->
            [st EXCEPT !.approved =
                Approve(@, st.current_note, mapped_field, ListV(CommaList(field_value)))]
      [] mapped_field = "relevancia_cacd" ->
            IF IsIntText(Split(field_value, "/")[1])
            THEN [st EXCEPT !.approved =
                    Approve(@, st.current_note, mapped_field,
                            IntV(IntOfText(Split(field_value, "/")[1])))]
            ELSE [st EXCEPT !.raised = TRUE]
      [] OTHER ->
            [st EXCEPT !.approved =
                Approve(@, st.current_note, mapped_field, StrV(field_value))]

\* from `if field_match:` on
ApproveMatch(st, field_match) ==
    IF field_match # <<>> /\ MappedField(LowerText(field_match[1])) # ""
    THEN ApproveValue(st, MappedField(LowerText(field_match[1])), field_match[2])
    ELSE st

\* one round of the loop over the lines, for a line and the prev_line found for it
ParseWith(st, line, prev_line) ==
    IF StartsWith(line, <<"#","#"," ","N","o","t","a",":">>)
    THEN [st EXCEPT !.current_note = Strip(Remove(line, <<"#","#"," ","N","o","t","a",":">>))]
    ELSE IF /\ Contains(line, <<"-"," ","D","e","c","i","s","ã","o",":"," ","[","x","]">>)
            /\ NonEmpty(st.current_note)
            /\ Contains(prev_line, <<"*","*">>)
    THEN ApproveMatch(st, FieldMatch(prev_line))
    ELSE st

ParseLine(st, lines, k) == ParseWith(st, lines[k], PreviousLine(lines, k))

RECURSIVE ParseLines(_, _, _)
ParseLines(st, lines, k) ==
    IF k > Len(lines) \/ st.raised THEN st
    ELSE ParseLines(ParseLine(st, lines, k), lines, k + 1)

\* the parsing loop of process_feedback_file over the text of the review file
ParseReview(content) ==
    ParseLines([current_note |-> None, approved |-> <<>>, raised |-> FALSE],
               Split(content, "\n"), 1)

\* _find_note_by_title: the position in the store of the first note with
\* that title, or 0 for None
_find_note_by_title(store, title) ==
    LET hit == {i \in 1..Len(store) : store[i].title = title}
    IN  IF hit = {} THEN 0 ELSE MinOf(hit)

\* the backup step without the test for a backup that is already there
BackupEveryTime(fs, file_path) ==
    IF ~Exists(fs, file_path)
    THEN [fs |-> fs, file_path |-> file_path, raised |-> TRUE]
    ELSE [fs |-> Rename(fs, file_path, with_suffix(file_path, BakSuffix)),
          file_path |-> with_suffix(with_suffix(file_path, BakSuffix), MdSuffix),
          raised |-> FALSE]

\* the backup step of _apply_metadata_changes: the files and file_path
\* afterwards; raised: rename has thrown because there is no file to move
BackupOriginal(fs, file_path) ==
    IF Exists(fs, with_suffix(file_path, BakSuffix))
    THEN [fs |-> fs, file_path |-> file_path, raised |-> FALSE]
    ELSE IF ~Exists(fs, file_path)
    THEN [fs |-> fs, file_path |-> file_path, raised |-> TRUE]
    ELSE [fs |-> Rename(fs, file_path, with_suffix(file_path, BakSuffix)),
          file_path |-> with_suffix(with_suffix(file_path, BakSuffix), MdSuffix),
          raised |-> FALSE]

\* what _apply_metadata_changes leaves and returns when it catches an exception
Failed(fs, store) == [fs |-> fs, store |-> store, ok |-> FALSE]

\* _apply_metadata_changes from the read of file_path on; open() raises when
\* there is no file, dict.update raises on a str or a list
RewriteHeader(fs, store, n, changes, file_path) ==
    IF ~Exists(fs, file_path) \/ fs[file_path].head = "scalar" THEN Failed(fs, store)
    ELSE [fs |-> [fs EXCEPT ![file_path] =
                    File("map",
                         Update(IF fs[file_path].head = "map" THEN fs[file_path].fm
                                ELSE EmptyHeader, changes),
                         <<>>, NL \o fs[file_path].rest)],
          store |-> [store EXCEPT ![n].frontmatter = Update(@, changes)],
          ok |-> TRUE]

\* _apply_metadata_changes after the backup step b
AfterBackup(store, n, changes, b) ==
    IF b.raised THEN Failed(b.fs, store)
    ELSE RewriteHeader(b.fs, store, n, changes, b.file_path)

\* _apply_metadata_changes on the note at position n of the store:
\* the files and the store afterwards, and the value returned
_apply_metadata_changes(fs, store, n, changes, backup_original) ==
    IF backup_original
    THEN AfterBackup(store, n, changes, BackupOriginal(fs, store[n].file_path))
    ELSE RewriteHeader(fs, store, n, changes, store[n].file_path)

\* one round of the loop over approved_changes, after _apply_metadata_changes
\* has returned r
Counted(st, r) ==
    [fs |-> r.fs, store |-> r.store,
     changes_applied |-> st.changes_applied + (IF r.ok THEN 1 ELSE 0)]

\* one round of the loop over approved_changes, for the note found at n
ApplyTo(st, n, changes, backup_original) ==
    IF n = 0 THEN st
    ELSE Counted(st, _apply_metadata_changes(st.fs, st.store, n, changes, backup_original))

\* the loop over approved_changes: files, store and changes_applied afterwards
RECURSIVE ApplyApproved(_, _, _, _)
ApplyApproved(st, approved, k, backup_original) ==
    IF k > Len(approved) THEN st
    ELSE ApplyApproved(ApplyTo(st, _find_note_by_title(st.store, approved[k].title),
                               approved[k].changes, backup_original),
                       approved, k + 1, backup_original)

\* what process_feedback_file leaves and returns, with approved_changes as far
\* as it was built
Outcome(fs, store, ok, approved) == [fs |-> fs, store |-> store, ok |-> ok, approved |-> approved]

\* the end of process_feedback_file without the rename
LeftInPlace(applied, approved) == Outcome(applied.fs, applied.store, TRUE, approved)

\* the end of process_feedback_file: the review file is moved aside; rename
\* raises when the file is no longer there
MoveAside(applied, approved) ==
    IF ~Exists(applied.fs, feedback_file)
    THEN Outcome(applied.fs, applied.store, FALSE, approved)
    ELSE Outcome(Rename(applied.fs, feedback_file, with_suffix(feedback_file, ProcessedSuffix)),
                 applied.store, TRUE, approved)

\* process_feedback_file with the rename done on the way out of the try block
\* as well
MovedWhenRaised(fs, store, backup_original, parsed) ==
    IF parsed.raised
    THEN Outcome(Rename(fs, feedback_file, with_suffix(feedback_file, ProcessedSuffix)),
                 store, FALSE, parsed.approved)
    ELSE MoveAside(ApplyApproved([fs |-> fs, store |-> store, changes_applied |-> 0],
                                 parsed.approved, 1, backup_original),
                   parsed.approved)

\* process_feedback_file once the loop over the lines has ended in `parsed`
ApplyParsed(fs, store, backup_original, parsed) ==
    IF parsed.raised THEN Outcome(fs, store, FALSE, parsed.approved)
    ELSE MoveAside(ApplyApproved([fs |-> fs, store |-> store, changes_applied |-> 0],
                                 parsed.approved, 1, backup_original),
                   parsed.approved)

process_feedback_file(fs, store, backup_original) ==
    IF ~Exists(fs, feedback_file) THEN Outcome(fs, store, FALSE, <<>>)
    ELSE ApplyParsed(fs, store, backup_original, ParseReview(FileText(fs[feedback_file])))


(***************************************************************************)
(* Study report                                                            *)
(***************************************************************************)
\* f"{count / total * 100:.1f}" for total > 0
FormatPercent(count, total) ==
    LET tenths == (2000 * count + total) \div (2 * total)
    IN  IntToText(tenths \div 10) \o <<".">> \o IntToText(tenths % 10)

\* sorted(items, key=..., reverse=True): descending, equal keys in their old order
SortedDescending(items, key(_)) ==
    LET rank(i) == Cardinality({j \in 1..Len(items) : key(items[j]) > key(items[i])})
                   + Cardinality({j \in 1..(i - 1) : key(items[j]) = key(items[i])}) + 1
    IN  [r \in 1..Len(items) |-> items[CHOOSE i \in 1..Len(items) : rank(i) = r]]

\* fm.get('relevancia_cacd', 0) of a header whose relevance, if any, is an int
RelevanceOf(note) ==
    IF note.frontmatter["relevancia_cacd"].type = "int"
    THEN note.frontmatter["relevancia_cacd"].v ELSE 0

\* the text generate_study_report has written when it returns, and whether it
\* returns the path (ok) or has caught a ZeroDivisionError; the character STAR
\* stands for U+2B50
ReportText(store) ==
    LET total_notes == Len(store)
        with_area == SelectSeq(store, LAMBDA n : Truthy(n.frontmatter["area"]))
        notes_with_metadata == Len(with_area)
        area_of(k) == with_area[k].frontmatter["area"].v
        first == SelectSeq(Indices(with_area),
                    LAMBDA i : \A j \in 1..(i - 1) : area_of(j) # area_of(i))
        area_stats == [k \in 1..Len(first) |->
                        [area |-> area_of(first[k]),
                         count |-> Len(SelectSeq(Indices(with_area),
                                        LAMBDA i : area_of(i) = area_of(first[k])))]]
        relevancia_stats(r) == Len(SelectSeq(store, LAMBDA n : RelevanceOf(n) = r))
        by_count == SortedDescending(area_stats, LAMBDA item : item.count)
        levels == SelectSeq(<<5, 4, 3, 2, 1>>, LAMBDA r : relevancia_stats(r) > 0)
        low == SelectSeq(area_stats, LAMBDA item : item.count < 5)
        high == SortedDescending(SelectSeq(store, LAMBDA n : RelevanceOf(n) >= 4), RelevanceOf)
        top == SubSeq(high, 1, IF Len(high) > 10 THEN 10 ELSE Len(high))
        head == <<"#"," ","R","e","l","a","t","ó","r","i","o"," ","d","e"," ","E","s","t","u","d","o","s"," ","C","A","C","D">>
                \o NL \o NL
                \o <<"*","*","G","e","r","a","d","o"," ","e","m",":","*","*"," ">> \o Now \o NL \o NL
                \o <<"#","#"," ","E","s","t","a","t","í","s","t","i","c","a","s"," ","G","e","r","a","i","s">>
                \o NL \o NL
                \o <<"-"," ","*","*","T","o","t","a","l"," ","d","e"," ","n","o","t","a","s",":","*","*"," ">>
                \o IntToText(total_notes) \o NL
                \o <<"-"," ","*","*","N","o","t","a","s"," ","c","o","m"," ","m","e","t","a","d","a","d","o","s",":","*","*"," ">>
                \o IntToText(notes_with_metadata) \o NL
        areas == <<"-"," ","*","*","C","o","b","e","r","t","u","r","a",":","*","*"," ">>
                 \o FormatPercent(notes_with_metadata, total_notes) \o <<"%">> \o NL \o NL
                 \o <<"#","#"," ","D","i","s","t","r","i","b","u","i","ç","ã","o"," ","p","o","r"," ","Á","r","e","a">>
                 \o NL \o NL
                 \o Concat([k \in 1..Len(by_count) |->
                        <<"-"," ","*","*">> \o by_count[k].area \o <<":","*","*"," ">>
                        \o IntToText(by_count[k].count) \o <<" ","n","o","t","a","s"," ","(">>
                        \o FormatPercent(by_count[k].count, notes_with_metadata)
                        \o <<"%",")">> \o NL])
                 \o NL
                 \o <<"#","#"," ","D","i","s","t","r","i","b","u","i","ç","ã","o"," ","p","o","r"," ","R","e","l","e","v","â","n","c","i","a"," ","C","A","C","D">>
                 \o NL \o NL
        rest == Concat([k \in 1..Len(levels) |->
                        <<"-"," ","*","*","N","í","v","e","l"," ">> \o IntToText(levels[k])
                        \o <<" ">> \o [s \in 1..levels[k] |-> "STAR"] \o <<":","*","*"," ">>
                        \o IntToText(relevancia_stats(levels[k]))
                        \o <<" ","n","o","t","a","s"," ","(">>
                        \o FormatPercent(relevancia_stats(levels[k]), notes_with_metadata)
                        \o <<"%",")">> \o NL])
                \o NL
                \o <<"#","#"," ","S","u","g","e","s","t","õ","e","s"," ","d","e"," ","E","s","t","u","d","o">>
                \o NL \o NL
                \o (IF low = <<>> THEN <<>>
                    ELSE <<"#","#","#"," ","Á","r","e","a","s"," ","c","o","m"," ","b","a","i","x","a"," ","c","o","b","e","r","t","u","r","a"," ","(","m","e","n","o","s"," ","d","e"," ","5"," ","n","o","t","a","s",")",":">>
                         \o NL
                         \o Concat([k \in 1..Len(low) |-> <<"-"," ">> \o low[k].area \o NL])
                         \o NL)
                \o (IF top = <<>> THEN <<>>
                    ELSE <<"#","#","#"," ","N","o","t","a","s"," ","d","e"," ","A","l","t","a"," ","R","e","l","e","v","â","n","c","i","a"," ","p","a","r","a"," ","R","e","v","i","s","ã","o",":">>
                         \o NL
                         \o Concat([k \in 1..Len(top) |->
                                <<"-"," ","*","*">> \o top[k].title
                                \o <<"*","*"," ","(","R","e","l",":"," ">>
                                \o IntToText(RelevanceOf(top[k]))
                                \o <<","," ","Á","r","e","a",":"," ">>
                                \o (IF top[k].frontmatter["area"].type = "str"
                                    THEN top[k].frontmatter["area"].v ELSE <<"N","/","A">>)
                                \o NL]))
    IN  IF total_notes = 0 THEN [text |-> head, ok |-> FALSE]
        ELSE IF levels # <<>> /\ notes_with_metadata = 0 THEN [text |-> head \o areas, ok |-> FALSE]
        ELSE [text |-> head \o areas \o rest, ok |-> TRUE]

\* the report file as written, and whether the path is returned
Written(fs, r) == [fs |-> [fs EXCEPT ![report_file] = TextFile(r.text)], ok |-> r.ok]

\* generate_study_report: the files afterwards, and whether it returns the path
generate_study_report(store, fs) == Written(fs, ReportText(store))


(***************************************************************************)
(* The vault at the start, and what the user does to the review file       *)
(***************************************************************************)
Geografia == <<"G","e","o","g","r","a","f","i","a">>

\* a note with no header: classified ECONOMIA, two tags
PlainEco == TextFile(<<"e","c","o","n","o","m","i","a"," ","b","r","a","s","i","l","\n">>)

\* a note whose header gives it the title of the file a.md and a key of the user's
Titled ==
    File("map", [EmptyHeader EXCEPT !["title"] = StrV(<<"a">>), !["autor"] = StrV(<<"A","n","a">>)],
         <<>>, <<"\n","g","e","o","g","r","a","f","i","a"," ","u","r","b","a","n","a","\n">>)

\* a note with complete metadata
Complete ==
    File("map", [EmptyHeader EXCEPT !["area"] = StrV(Geografia), !["relevancia_cacd"] = IntV(5)],
         <<>>, <<"\n","e","c","o","n","o","m","i","a","\n">>)

\* a note whose header block is no YAML
BadHeader ==
    File("bad", EmptyHeader, <<"\n",":"," ","[","\n">>,
         <<"\n","g","e","o","g","r","a","f","i","a"," ","u","r","b","a","n","a","\n">>)

\* what a.md and b.md may be when the program is first run
FirstNotes == {PlainEco, Complete, Absent}

SecondNotes == {Titled, BadHeader}

\* a backup left beside the first note by an earlier run
OldBackup == TextFile(<<"o","l","d","\n">>)

\* how many edits the user makes to review files
MaxEdits == 1

\* how many times the program is run, and how many of the runs are analyses
MaxRuns == 3

MaxAnalyses == 2

VARIABLES
    files,            \* the vault: path -> file
    notes,            \* self.notes of the last run, in insertion order
    backup_original,  \* config['backup_original']
    result,           \* the mode of the last run, what its operation returned, its exit code
    suggested,        \* suggestions_to_review of the last review file written
    approved,         \* approved_changes of the last process_feedback_file
    edits,            \* edits the user has made
    runs,             \* runs of the program so far
    analyses,         \* runs in mode analyze so far
    call,             \* a single call of one method: its arguments (<<>> in runs of the program)
    returned          \* what that call returned (<<>> before it returns)

vars == <<files, notes, backup_original, result, suggested, approved, edits, runs, analyses,
          call, returned>>

\* no single call is being made; a call that has not returned yet
NoCall == [fn |-> "none"]

Pending == [done |-> FALSE]

Init ==
    /\ backup_original \in BOOLEAN
    /\ \E a \in FirstNotes, b \in SecondNotes :
       \E bak \in (IF backup_original /\ a # Absent THEN {Absent, OldBackup} ELSE {Absent}) :
          files = [p \in Paths |->
                      IF p = UserPaths[1] THEN a
                      ELSE IF p = UserPaths[2] THEN b
                      ELSE IF p = with_suffix(UserPaths[1], BakSuffix) THEN bak
                      ELSE Absent]
    /\ notes = <<>>
    /\ result = [mode |-> "none", ok |-> TRUE, exit |-> 0]
    /\ suggested = <<>>
    /\ approved = <<>>
    /\ edits = 0
    /\ runs = 0
    /\ analyses = 0
    /\ call = NoCall
    /\ returned = Pending

\* every run builds an analyzer, whose store is empty, and scans the vault
Scan == scan_vault(<<>>, files)

\* what a run leaves: the files, the store, and what main() got and returns
Ran(mode, fs, store, ok, exit) ==
    /\ files' = fs
    /\ notes' = store
    /\ result' = [mode |-> mode, ok |-> ok, exit |-> exit]
    /\ runs' = runs + 1
    /\ UNCHANGED <<backup_original, edits, call, returned>>

\* generate_feedback_file on the scanned store
Analyzed(store) ==
    \E suggestions \in SuggestionLists(store, Len(store)) :
        /\ Ran("analyze", generate_feedback_file(store, files, suggestions), store,
               suggestions # <<>>, 0)
        /\ suggested' = IF suggestions # <<>> THEN suggestions ELSE suggested

\* a run in mode analyze (mode feedback differs in what it prints)
MainAnalyze ==
    /\ runs < MaxRuns
    /\ analyses < MaxAnalyses
    /\ Analyzed(Scan)
    /\ analyses' = analyses + 1
    /\ UNCHANGED approved

Processed(r) ==
    /\ Ran("process", r.fs, r.store, r.ok, IF r.ok THEN 0 ELSE 1)
    /\ approved' = r.approved

\* a run in mode process
MainProcess ==
    /\ runs < MaxRuns
    /\ Processed(process_feedback_file(files, Scan, backup_original))
    /\ UNCHANGED <<suggested, analyses>>

Reported(store, r) == Ran("report", r.fs, store, r.ok, IF r.ok THEN 0 ELSE 1)

\* a run in mode report
MainReport ==
    /\ runs < MaxRuns
    /\ Reported(Scan, generate_study_report(Scan, files))
    /\ UNCHANGED <<suggested, approved, analyses>>

\* the review file with the characters from position i to j replaced by t
Rewrite(i, j, t) ==
    LET text == files[feedback_file].rest IN
    /\ files' = [files EXCEPT ![feedback_file] =
                    TextFile(SubSeq(text, 1, i - 1) \o t \o SubSeq(text, j + 1, Len(text)))]
    /\ edits' = edits + 1
    /\ UNCHANGED <<notes, backup_original, result, suggested, approved, runs, analyses,
                   call, returned>>

\* an unchecked marker line starts after position i of the text
UncheckedAt(text, i) == MatchAt(text, NL \o Unchecked \o NL, i)

\* the text with every box checked
CheckAll(text) ==
    [j \in 1..Len(text) |-> IF UncheckedAt(text, j - Len(Unchecked) + 1) THEN "x" ELSE text[j]]

\* the user checks one box
UserMark ==
    LET text == files[feedback_file].rest IN
    /\ edits < MaxEdits
    /\ files[feedback_file].head = "none"
    /\ \E i \in 1..Len(text) :
          /\ UncheckedAt(text, i)
          /\ Rewrite(i + 1, i + Len(Unchecked), Checked)

\* the user checks every box
UserMarkAll ==
    LET text == files[feedback_file].rest IN
    /\ edits < MaxEdits
    /\ files[feedback_file].head = "none"
    /\ \E i \in 1..Len(text) : UncheckedAt(text, i)
    /\ Rewrite(1, Len(text), CheckAll(text))

RelevanceLabel == <<"-"," ","*","*","R","e","l","e","v","â","n","c","i","a"," ","C","A","C","D",":","*","*"," ">>

\* a relevance in words, as a user may write it
InWords == <<"a","l","t","a">>

\* the user writes a word where a suggested relevance n/5 was, and checks its box
UserRewordsRelevance ==
    LET text == files[feedback_file].rest
        at == Len(RelevanceLabel) + 1
    IN
    /\ edits < MaxEdits
    /\ files[feedback_file].head = "none"
    /\ \E i \in 1..Len(text) :
          /\ MatchAt(text, NL \o RelevanceLabel, i)
          /\ MatchAt(text, <<"/","5">> \o NL \o Unchecked \o NL, i + at + 1)
          /\ Rewrite(i + at, i + at + 3 + Len(Unchecked), InWords \o NL \o Checked)

Next ==
    \/ MainAnalyze
    \/ MainProcess
    \/ MainReport
    \/ UserMark
    \/ UserMarkAll
    \/ UserRewordsRelevance

Spec == Init /\ [][Next]_vars

(***************************************************************************)
(* Single calls: one method applied once to arguments drawn from the sets  *)
(* below, with the program at rest                                         *)
(***************************************************************************)
\* a vault that holds the two notes of the user and nothing else
Vault(a, b) ==
    [p \in Paths |-> IF p = UserPaths[1] THEN a ELSE IF p = UserPaths[2] THEN b ELSE Absent]

\* a note whose header block is a YAML scalar, not a mapping
ScalarHeader ==
    File("scalar", EmptyHeader, <<"\n","r","e","s","u","m","o","\n">>, <<"\n","g","e","o","g","r","a","f","i","a"," ","u","r","b","a","n","a","\n">>)

\* a note no word of which is in the keyword index
Unmatched == TextFile(<<"x","y","z","\n">>)

\* a note whose header has an area and no relevancia_cacd
Partial ==
    File("map", [EmptyHeader EXCEPT !["area"] = StrV(<<"E","C","O","N","O","M","I","A">>)],
         <<>>, <<"\n","e","c","o","n","o","m","i","a","\n">>)

\* what a.md and b.md may be when one method is called
NoteFiles == {Absent, PlainEco, Titled, Complete, BadHeader, ScalarHeader, Unmatched, Partial}

Vaults == {Vault(a, b) : a, b \in NoteFiles}

\* a taxonomy whose first area names the same word twice
RepeatTaxonomy ==
    << [area |-> <<"R","i","o"," ","R","i","o">>,
        content |-> << [subarea |-> <<"L","u","a">>, topics |-> << <<"R","i","o"," ","L","u","a">> >>] >>] >>

\* the taxonomy documents a call may be given
Taxonomies == {TestTaxonomy, RepeatTaxonomy, <<>>}

\* a text of n words of which the first is `word`
RECURSIVE Padded(_, _)
Padded(word, n) == IF n <= 1 THEN word ELSE Padded(word, n - 1) \o <<" ","e","u">>

\* texts to normalize and classify
Texts ==
    {<<>>, <<" ">>, <<"!","?">>, <<"ACUTE">>, <<"x","y","z">>,
     <<"g","e","o","g","r","a","f","i","a">>, <<"e","c","o","n","o","m","i","a"," ","g","e","o","g","r","a","f","i","a">>, <<"G","e","o","g","r","a","f","i","a"," ","U","r","b","a","n","a",","," ","M","e","t","r","o","p","o","l","i","z","a","ç","ã","o","!">>, <<"m","a","c","r","o","e","c","o","n","o","m","i","a","\t","ú","r","b","a","n","a">>, <<"r","i","o"," ","l","u","a"," ","r","i","o">>, <<"A","ç","ã","o"," ","e","ACUTE"," ","Á","G","U","A","_","1">>, <<"l","u","a"," ","r","i","o"," ","l","u","a">>,
     Padded(<<"r","i","o">>, 20), Padded(<<"r","i","o">>, 40),
     Padded(<<"g","e","o","g","r","a","f","i","a">>, 25), Padded(<<"e","u">>, 12)}

Titles == {<<>>, <<"G","e","o","g","r","a","f","i","a">>, <<"R","i","o">>}

\* the taxonomy file CACDTaxonomyAnalyzer is built on: one that open() or
\* yaml.safe_load rejects, an empty document, a list, a scalar, a mapping
TaxonomyFiles ==
    {[kind |-> k, areas |-> <<>>] : k \in {"unreadable", "malformed", "empty", "list", "scalar"}}
    \cup {[kind |-> "map", areas |-> t] : t \in Taxonomies}

\* _load_taxonomy: the document, tagged with its Python type
_load_taxonomy(file) ==
    CASE file.kind \in {"unreadable", "malformed"} -> [type |-> "dict", areas |-> <<>>]
      [] file.kind = "empty" -> [type |-> "none", areas |-> <<>>]
      [] file.kind = "list" -> [type |-> "list", areas |-> <<>>]
      [] file.kind = "scalar" -> [type |-> "str", areas |-> <<>>]
      [] OTHER -> [type |-> "dict", areas |-> file.areas]

\* CACDTaxonomyAnalyzer.__init__ once the document is loaded: .items() of a
\* value that is no dict raises AttributeError
Constructed(taxonomy) ==
    IF taxonomy.type # "dict"
    THEN [raised |-> TRUE, taxonomy |-> taxonomy.areas, keyword_map |-> <<>>]
    ELSE [raised |-> FALSE, taxonomy |-> taxonomy.areas,
          keyword_map |-> _build_keyword_map(taxonomy.areas)]

CACDTaxonomyAnalyzer(file) == Constructed(_load_taxonomy(file))

\* the confidences, thresholds, areas and content lengths of a relevance call
Confidences ==
    {Frac(0, 1), Frac(1, 10), Frac(3, 10), Frac(39, 100), Frac(4, 10), Frac(1, 2),
     Frac(7, 10), Frac(71, 100), Frac(1, 1)}

Thresholds == {Frac(0, 1), Frac(3, 10), Frac(1, 2), Frac(1, 1)}

Areas == {None, <<>>, Geografia, <<"E","C","O","N","O","M","I","A">>, <<"A","r","t","e">>}

ContentLengths == {0, 199, 200, 1000, 1001}

\* a note with a content of n characters
NoteOfLength(n) == Note(UserPaths[1], <<"a">>, [i \in 1..n |-> "a"], EmptyHeader, UserPaths[1])

\* the values of config['max_tags'] and config['conexoes_max'] a caller may set
TagLimits == {3, 5}

ConnectionLimits == {0, 1, 3}

\* texts that get several tags
TagTexts == {<<>>, <<"o","n","u">>, <<"o","n","u"," ","p","a","z"," ","b","r","a","s","i","l">>, <<"g","u","e","r","r","a",","," ","p","a","z"," ","e"," ","e","c","o","n","o","m","i","a"," ","d","o"," ","b","r","a","s","i","l">>, <<"t","r","a","t","a","d","o"," ","d","e"," ","p","a","z"," ","d","a"," ","o","n","u",":"," ","g","u","e","r","r","a",","," ","e","c","o","n","o","m","i","a"," ","e"," ","b","r","a","s","i","l">>}

\* the labels a suggestion may carry into _suggest_connections
SuggestedLabels ==
    {[area |-> None, subarea |-> None],
     [area |-> <<"E","C","O","N","O","M","I","A">>, subarea |-> None],
     [area |-> Geografia, subarea |-> <<"G","e","o","g","r","a","f","i","a"," ","U","r","b","a","n","a">>]}

\* the vaults whose notes are looked through for connections
ConnectionVaults ==
    {Vault(a, b) : a \in {PlainEco, Partial, Unmatched}, b \in {Titled, BadHeader, Partial, Complete}}

\* the characters of the short texts: letters with and without accent or
\* capital, a digit, the underscore, punctuation, blanks and a combining mark
Alphabet == {"a", "Z", "Á", "ç", "1", "_", "!", " ", "\n", "ACUTE"}

\* the length of the longest short text
MaxLen == 3

\* every text of up to MaxLen characters of the alphabet
ShortTexts == UNION {[1..n -> Alphabet] : n \in 1..MaxLen}

NormalizeCalls == {[fn |-> "_normalize_text", text |-> t] : t \in Texts \cup ShortTexts}

ClassifyCalls ==
    {[fn |-> "classify_text", taxonomy |-> tax, text |-> t, title |-> ti] :
        tax \in Taxonomies, t \in Texts, ti \in Titles}

ConstructCalls ==
    {[fn |-> "CACDTaxonomyAnalyzer", file |-> f, text |-> t] :
        f \in TaxonomyFiles, t \in {<<>>, <<"g","e","o","g","r","a","f","i","a">>, <<"r","i","o">>}}

RelevanceCalls ==
    {[fn |-> "_calculate_relevancia_cacd", threshold |-> th, length |-> n, area |-> a,
      confidence |-> c] :
        th \in Thresholds, n \in ContentLengths, a \in Areas, c \in Confidences}

TagCalls ==
    {[fn |-> "generate_tags", max_tags |-> m, text |-> t, title |-> ti, area |-> a] :
        m \in TagLimits, t \in TagTexts, ti \in {<<>>, <<"O","N","U">>},
        a \in {None, <<"E","C","O","N","O","M","I","A">>}}

ScanCalls == {[fn |-> "scan_vault", files |-> v] : v \in Vaults}

ConnectionCalls ==
    {[fn |-> "_suggest_connections", conexoes_max |-> m, files |-> v, note |-> i,
      area |-> l.area, subarea |-> l.subarea] :
        m \in ConnectionLimits, v \in ConnectionVaults, i \in 1..2, l \in SuggestedLabels}

GenerateCalls == {[fn |-> "generate_feedback_file", files |-> v] : v \in Vaults}

AtRest ==
    /\ files = Vault(Absent, Absent)
    /\ notes = <<>>
    /\ backup_original = TRUE
    /\ result = [mode |-> "none", ok |-> TRUE, exit |-> 0]
    /\ suggested = <<>>
    /\ approved = <<>>
    /\ edits = 0
    /\ runs = 0
    /\ analyses = 0

InitCalls ==
    /\ AtRest
    /\ call \in NormalizeCalls \cup ClassifyCalls \cup ConstructCalls \cup RelevanceCalls
                \cup TagCalls \cup ScanCalls \cup ConnectionCalls \cup GenerateCalls
    /\ returned = Pending

\* the method fn has been called and has not returned
Called(fn) == call.fn = fn /\ ~returned.done

\* the call returns value
Return(value) ==
    /\ returned' = [done |-> TRUE, value |-> value]
    /\ UNCHANGED <<files, notes, backup_original, result, suggested, approved, edits, runs,
                   analyses, call>>

CallNormalize == Called("_normalize_text") /\ Return(_normalize_text(call.text))

CallClassify ==
    /\ Called("classify_text")
    /\ Return(classify_text(_build_keyword_map(call.taxonomy), call.text, call.title))

\* the analyzer is built and, when __init__ has not raised, asked to classify
Classified(built, text) ==
    [raised |-> built.raised, taxonomy |-> built.taxonomy, keyword_map |-> built.keyword_map,
     classification |-> IF built.raised THEN NoClassification
                        ELSE classify_text(built.keyword_map, text, <<>>)]

CallConstruct ==
    /\ Called("CACDTaxonomyAnalyzer")
    /\ Return(Classified(CACDTaxonomyAnalyzer(call.file), call.text))

CallRelevance ==
    /\ Called("_calculate_relevancia_cacd")
    /\ Return(RelevanceAbove(call.threshold, NoteOfLength(call.length), call.area, call.confidence))

CallTags ==
    /\ Called("generate_tags")
    /\ \E tags \in generate_tags(call.text, call.title, call.area) : Return(tags)

\* scan_vault on a new analyzer: the store, and the count it returns
ScanResult(store) == [store |-> store, count |-> Len(store)]

CallScan == Called("scan_vault") /\ Return(ScanResult(scan_vault(<<>>, call.files)))

\* _suggest_connections for the i-th note of the scanned store, if there is one
ConnectionsOf(max, store, i, area, subarea) ==
    IF i > Len(store) THEN <<>> ELSE ConnectionsUpTo(max, store, store[i], area, subarea)

CallConnections ==
    /\ Called("_suggest_connections")
    /\ Return(ConnectionsOf(call.conexoes_max, scan_vault(<<>>, call.files), call.note,
                            call.area, call.subarea))

\* generate_feedback_file after scan_vault: what it returns, the files and
\* the store afterwards, and the suggestions it wrote
Generated(store, fs, suggestions) ==
    [ok |-> suggestions # <<>>, files |-> generate_feedback_file(store, fs, suggestions),
     store |-> store, count |-> Len(store), suggestions |-> suggestions]

GenerateOn(store) ==
    \E suggestions \in SuggestionLists(store, Len(store)) :
        Return(Generated(store, call.files, suggestions))

CallGenerate == Called("generate_feedback_file") /\ GenerateOn(scan_vault(<<>>, call.files))

NextCalls ==
    \/ CallNormalize
    \/ CallClassify
    \/ CallConstruct
    \/ CallRelevance
    \/ CallTags
    \/ CallScan
    \/ CallConnections
    \/ CallGenerate

Calls == InitCalls /\ [][NextCalls]_vars

(***************************************************************************)
(* Properties: what they read                                              *)
(***************************************************************************)
\* this step is a run of the program in the given mode
RunOf(mode) == runs' = runs + 1 /\ result'.mode = mode

\* the paths of the user's notes
UserNotes == {UserPaths[i] : i \in 1..Len(UserPaths)}

\* the header mapping a file holds, as a scan reads it
HeaderOf(f) == IF f.head = "map" THEN f.fm ELSE EmptyHeader

\* the header fields a review file can carry
ReviewFields == {field_mapping[k].field : k \in 1..Len(field_mapping)}

NotePrefix == <<"#","#"," ","N","o","t","a",":">>

FilePrefix == <<"*","*","A","r","q","u","i","v","o",":","*","*"," ","BACKTICK">>

\* the line is a checked marker
IsChecked(line) == Contains(line, <<"-"," ","D","e","c","i","s","ã","o",":"," ","[","x","]">>)

\* the header line of the section that line k is in, or 0
SectionAt(lines, k) ==
    LET above == {j \in 1..(k - 1) : StartsWith(lines[j], NotePrefix)}
    IN  IF above = {} THEN 0 ELSE MaxOf(above)

\* the title and the file named at the top of the section that line k is in
TitleAt(lines, k) ==
    Strip(SubSeq(lines[SectionAt(lines, k)], Len(NotePrefix) + 1, Len(lines[SectionAt(lines, k)])))

FileAt(lines, k) ==
    SubSeq(lines[SectionAt(lines, k) + 1], Len(FilePrefix) + 1,
           Len(lines[SectionAt(lines, k) + 1]) - 1)

\* <<field, text>> of the field line right above line k, or <<>> when that
\* line is no field line
FieldAt(lines, k) ==
    LET m == IF k < 2 THEN <<>> ELSE FieldMatch(lines[k - 1])
    IN  IF m = <<>> \/ MappedField(LowerText(m[1])) = "" THEN <<>>
        ELSE <<MappedField(LowerText(m[1])), m[2]>>

\* the lines where the user has approved a field of a titled section
ApprovedAt(lines) ==
    {k \in 2..Len(lines) :
        /\ IsChecked(lines[k])
        /\ SectionAt(lines, k) # 0
        /\ TitleAt(lines, k) # <<>>
        /\ FieldAt(lines, k) # <<>>}

\* the header value a field's text stands for
ValueOf(field, text) ==
    CASE field \in {"tags", "conexoes"} -> ListV(CommaList(text))
      [] field = "relevancia_cacd" ->
            IF IsIntText(Split(text, "/")[1]) THEN IntV(IntOfText(Split(text, "/")[1]))
            ELSE NoneV
      [] OTHER -> StrV(text)

\* the lines of the review file
ReviewLines == Split(files[feedback_file].rest, "\n")

\* the header a suggestion asks for: the fields its section shows
SuggestedHeader(s) ==
    [k \in HeaderKeys |->
        CASE k = "area" /\ NonEmpty(s.area) -> StrV(s.area)
          [] k = "subarea" /\ NonEmpty(s.subarea) -> StrV(s.subarea)
          [] k = "topico" /\ NonEmpty(s.topico) -> StrV(s.topico)
          [] k = "tags" /\ s.tags # <<>> -> ListV(s.tags)
          [] k = "relevancia_cacd" /\ Truthy(s.relevancia_cacd) -> s.relevancia_cacd
          [] k = "conexoes" /\ s.conexoes # <<>> -> ListV(s.conexoes)
          [] OTHER -> MissingV]

\* the review file is the one the last analysis wrote, with every box checked
AllBoxesChecked ==
    /\ result.mode = "analyze"
    /\ result.ok
    /\ edits > 0
    /\ files[feedback_file] = TextFile(CheckAll(ReviewText(notes, suggested)))

(***************************************************************************)
(* Properties                                                              *)
(***************************************************************************)
\* C1: round trip.  When the review file of an analysis has every box checked
\* and is processed with backup enabled, then every note that had a section
\* has in its file header, for every field the section showed, the value
\* that was suggested.
C1_RoundTrip ==
    [][(backup_original /\ AllBoxesChecked /\ RunOf("process")) =>
        \A k \in 1..Len(suggested) : \A f \in HeaderKeys :
            SuggestedHeader(suggested[k])[f].type # "missing" =>
                HeaderOf(files'[suggested[k].note_id])[f] = SuggestedHeader(suggested[k])[f]]_vars

\* C2: every checked marker approves the field and value of the line right
\* above that same marker, under the title of the section it is in (the last
\* marker for a title and field decides the value), also when several
\* checked markers have the same text.
C2_MarkerApprovesLineAbove ==
    [][(RunOf("process") /\ result'.ok) =>
        LET lines == ReviewLines IN
        \A k \in ApprovedAt(lines) :
            (\A l \in ApprovedAt(lines) :
                (l > k /\ TitleAt(lines, l) = TitleAt(lines, k)) =>
                    FieldAt(lines, l)[1] # FieldAt(lines, k)[1])
            => \E e \in 1..Len(approved') :
                 /\ approved'[e].title = TitleAt(lines, k)
                 /\ approved'[e].changes[FieldAt(lines, k)[1]]
                      = ValueOf(FieldAt(lines, k)[1], FieldAt(lines, k)[2])]_vars

\* the (file, field) pairs the user has approved, each in the file's own section
CheckedFields(lines) == {<<FileAt(lines, k), FieldAt(lines, k)[1]>> : k \in ApprovedAt(lines)}

\* C3: a process run changes a header field of a note, on disk or in memory,
\* only if the line for that field in the note's own section is followed by
\* a checked marker.
C3_OnlyApprovedFieldsChange ==
    [][RunOf("process") =>
        LET lines == ReviewLines IN
        /\ \A p \in UserNotes : \A f \in ReviewFields :
              (/\ Exists(files, p)
               /\ Exists(files', p)
               /\ HeaderOf(files'[p])[f] # HeaderOf(files[p])[f])
              => <<p, f>> \in CheckedFields(lines)
        /\ \A i \in 1..Len(notes') : \A f \in ReviewFields :
              (/\ notes'[i].file_path \in UserNotes
               /\ notes'[i].frontmatter[f] # HeaderOf(files[notes'[i].file_path])[f])
              => <<notes'[i].file_path, f>> \in CheckedFields(lines)]_vars

\* C4: every note of the user that the last scan loaded still has a file at
\* its path.
C4_NotesKeepTheirFiles ==
    \A i \in 1..Len(notes) :
        notes[i].file_path \in UserNotes => Exists(files, notes[i].file_path)

\* every path a scan can load a note from
NotePaths == {Listing[i] : i \in 1..Len(Listing)}

\* the step is a process run that reached the loop over approved_changes: the
\* review file was there and is gone from its path afterwards
Applying == RunOf("process") /\ Exists(files, feedback_file) /\ ~Exists(files', feedback_file)

\* the paths of the notes a process run has approved changes for
Targets(store, changes) ==
    {store[_find_note_by_title(store, changes[e].title)].file_path :
        e \in {e \in 1..Len(changes) : _find_note_by_title(store, changes[e].title) # 0}}

\* C5: with backup enabled, a process run that has approved changes for a
\* note leaves a backup beside it; a backup that appears holds what the
\* note's file held before the run, and only such a run makes one; a backup
\* that is there is never written again.
C5_BackupOnce ==
    [][\A p \in NotePaths :
          /\ Exists(files, with_suffix(p, BakSuffix))
                => files'[with_suffix(p, BakSuffix)] = files[with_suffix(p, BakSuffix)]
          /\ (~Exists(files, with_suffix(p, BakSuffix)) /\ Exists(files', with_suffix(p, BakSuffix)))
                => /\ backup_original
                   /\ RunOf("process")
                   /\ files'[with_suffix(p, BakSuffix)] = files[p]
          /\ (backup_original /\ Applying /\ p \in Targets(notes', approved'))
                => Exists(files', with_suffix(p, BakSuffix))]_vars

\* a process run has applied changes to a.md, whose backup was there and is
\* as it was, and has made the backup of b.md
C5_Witness ==
    /\ backup_original
    /\ result.mode = "process"
    /\ result.ok
    /\ UserNotes \subseteq Targets(notes, approved)
    /\ files[with_suffix(UserPaths[1], BakSuffix)] = OldBackup
    /\ files[UserPaths[1]] # PlainEco
    /\ files[with_suffix(UserPaths[2], BakSuffix)] = BadHeader

\* C6: a note file that a process run has rewritten is a header followed by
\* the body the store loaded (compared without the blanks around it), and
\* every header key that was not approved has the value it had in the file.
C6_BodyAndOtherKeysKept ==
    [][RunOf("process") =>
        \A i \in 1..Len(notes') :
            LET p == notes'[i].file_path IN
            (p \in UserNotes /\ Exists(files, p) /\ Exists(files', p) /\ files'[p] # files[p])
            => /\ files'[p].head = "map"
               /\ Strip(files'[p].rest) = Strip(notes'[i].content)
               /\ \A k \in HeaderKeys :
                     (\A e \in 1..Len(approved') : approved'[e].changes[k].type = "missing")
                     => files'[p].fm[k] = HeaderOf(files[p])[k]]_vars

\* a rewritten note file with a valid header has kept its body and the user's key
C6_Witness ==
    /\ result.mode = "process"
    /\ files[UserPaths[2]].head = "map"
    /\ files[UserPaths[2]].fm["autor"] = Titled.fm["autor"]
    /\ Truthy(files[UserPaths[2]].fm["area"])
    /\ Strip(files[UserPaths[2]].rest) = Strip(Titled.rest)

\* the line that names a note's file at the top of its section
FileLine(id) == NL \o FilePrefix \o id \o <<"BACKTICK">> \o NL

\* the suggestion analyze_note returns for a note it does not classify
NoSuggestion(id) == MetadataSuggestion(id, None, None, None, <<>>, NoneV, <<>>, Frac(1, 1))

\* C7: after a run in mode analyze, a note whose header in the store has a
\* non-empty area and a non-empty relevancia_cacd has no section in the review
\* file the run wrote, and analyze_note returns for it the suggestion with
\* confidence 1.0 and nothing else.
C7_CompleteNotesSkipped ==
    [][RunOf("analyze") =>
        \A i \in 1..Len(notes') :
            (Truthy(notes'[i].frontmatter["area"]) /\ Truthy(notes'[i].frontmatter["relevancia_cacd"]))
            => /\ analyze_note(notes', notes'[i]) = {NoSuggestion(notes'[i].id)}
               /\ result'.ok =>
                    /\ ~Contains(files'[feedback_file].rest, FileLine(notes'[i].id))
                    /\ \A k \in 1..Len(suggested') : suggested'[k].note_id # notes'[i].id]_vars

\* an analysis has written a review file for a vault that holds a complete note
C7_Witness ==
    /\ result.mode = "analyze"
    /\ result.ok
    /\ \E i \in 1..Len(notes) :
          Truthy(notes[i].frontmatter["area"]) /\ Truthy(notes[i].frontmatter["relevancia_cacd"])

\* the text t ends with the text u
EndsWith(t, u) == Len(u) <= Len(t) /\ SubSeq(t, Len(t) - Len(u) + 1, Len(t)) = u

\* C8: when a process run succeeds, the review file's name is free and its
\* content is under the .processed name; a process run right after a
\* successful one fails and changes no file.
C8_ReviewFileConsumed ==
    [][RunOf("process") =>
        /\ result'.ok =>
              /\ ~Exists(files', feedback_file)
              /\ Exists(files', with_suffix(feedback_file, ProcessedSuffix))
              /\ EndsWith(FileText(files'[with_suffix(feedback_file, ProcessedSuffix)]),
                          FileText(files[feedback_file]))
        /\ (result.mode = "process" /\ result.ok) =>
              /\ ~result'.ok
              /\ result'.exit = 1
              /\ files' = files]_vars

\* a process run has failed for want of the review file an earlier one consumed
C8_Witness ==
    /\ result.mode = "process"
    /\ ~result.ok
    /\ ~Exists(files, feedback_file)
    /\ Exists(files, with_suffix(feedback_file, ProcessedSuffix))

\* C9: a process run that fails before it applies anything (no review file,
\* or a value that int() rejects) returns failure, exits with 1, and leaves
\* every file, the review file included, and every header in the store as the
\* scan found them.
C9_FailureChangesNothing ==
    [][(/\ RunOf("process")
        /\ \/ ~Exists(files, feedback_file)
           \/ ParseReview(FileText(files[feedback_file])).raised) =>
        /\ ~result'.ok
        /\ result'.exit = 1
        /\ files' = files
        /\ \A i \in 1..Len(notes') :
              notes'[i].frontmatter = HeaderOf(files[notes'[i].file_path])]_vars

\* a process run has failed on a relevance the user approved in words
C9_Witness ==
    /\ result.mode = "process"
    /\ result.exit = 1
    /\ Exists(files, feedback_file)
    /\ Contains(files[feedback_file].rest, RelevanceLabel \o InWords \o NL \o Checked)

\* C10: a process run that reaches the loop over approved_changes returns
\* success and moves the review file aside whatever happens to single notes;
\* a note of the user whose file was not rewritten has none of the changes in
\* the store, and one whose file can be written has them in its file.
C10_NoteFailuresAreContained ==
    [][(/\ RunOf("process")
        /\ Exists(files, feedback_file)
        /\ ~ParseReview(FileText(files[feedback_file])).raised) =>
        /\ result'.ok
        /\ ~Exists(files', feedback_file)
        /\ Exists(files', with_suffix(feedback_file, ProcessedSuffix))
        /\ \A i \in 1..Len(notes') :
              LET p == notes'[i].file_path IN
              p \in UserNotes =>
                /\ (~Exists(files', p) \/ files'[p] = files[p])
                      => notes'[i].frontmatter = HeaderOf(files[p])
                /\ (/\ p \in Targets(notes', approved')
                    /\ (~backup_original \/ Exists(files, with_suffix(p, BakSuffix))))
                      => files'[p].fm = notes'[i].frontmatter]_vars

(***************************************************************************)
(* Properties of single calls                                              *)
(***************************************************************************)
\* the call of the method fn has returned
Returned(fn) == call.fn = fn /\ returned.done

\* the notes of the store that lack an area or a relevancia_cacd and that the
\* classifier gives an area
ToReview(store) ==
    SelectSeq(store, LAMBDA n :
        /\ ~(Truthy(n.frontmatter["area"]) /\ Truthy(n.frontmatter["relevancia_cacd"]))
        /\ NonEmpty(classify_text(KeywordMap, n.content, n.title).area))

\* the lines of a text that start with a prefix
LinesWith(text, prefix) == SelectSeq(Split(text, "\n"), LAMBDA l : StartsWith(l, prefix))

\* every line of a suggested field is followed by the unchecked marker line
FieldsUnchecked(lines) ==
    \A k \in 1..Len(lines) :
        StartsWith(lines[k], <<"-"," ","*","*">>) => (k < Len(lines) /\ lines[k + 1] = Unchecked)

CallWords == Words(_normalize_text(Strip(call.title \o <<" ">> \o call.text)))

CallIndex == _build_keyword_map(call.taxonomy)

\* the word is a key of the index
Indexed(kmap, w) == \E k \in 1..Len(kmap) : kmap[k].word = w

\* the triples the words of the call point to, one for each increment of a
\* counter, in the order of the increments
Increments(kmap, words) == Concat([k \in 1..Len(words) |-> KeywordTriples(kmap, words[k])])

\* the counter of triple t after those increments
Counter(incs, t) == Cardinality({i \in 1..Len(incs) : incs[i] = t})

\* the greatest counter
BestScore(incs) == MaxOf({Counter(incs, incs[i]) : i \in 1..Len(incs)})

FracEq(a, b) == a.num * b.den = b.num * a.den

\* min(score / max(0.1 * n_words, 1), 1.0)
ExpectedConfidence(score, n_words) ==
    LET d == IF n_words > 10 THEN n_words ELSE 10
    IN  IF score * 10 >= d THEN Frac(1, 1) ELSE Frac(score * 10, d)

\* C12: the confidence classify_text returns is in [0,1]; it returns no
\* labels and confidence 0.0 exactly when the normalized title and text are
\* empty or hold no word of the keyword index; otherwise the area is not
\* None and the confidence is min(bestScore / max(0.1 * wordCount, 1), 1.0),
\* which is greater than 0.
C12_ConfidenceOfClassification ==
    Returned("classify_text") =>
        LET r == returned.value
            unmatched == \A k \in 1..Len(CallWords) : ~Indexed(CallIndex, CallWords[k])
        IN  /\ r.confidence.den > 0
            /\ 0 <= r.confidence.num
            /\ r.confidence.num <= r.confidence.den
            /\ (r.area = None /\ r.subarea = None /\ r.topico = None) <=> unmatched
            /\ unmatched => r.confidence.num = 0
            /\ ~unmatched =>
                 /\ r.area # None
                 /\ r.confidence.num > 0
                 /\ FracEq(r.confidence,
                           ExpectedConfidence(BestScore(Increments(CallIndex, CallWords)),
                                              Len(CallWords)))

\* a text of more than ten words has been classified with a confidence below 1
C12_Witness ==
    /\ Returned("classify_text")
    /\ Len(CallWords) > 10
    /\ returned.value.area # None
    /\ FracLess(returned.value.confidence, Frac(1, 1))

\* 3, plus 1 for an area of high priority, plus or minus 1 by the confidence,
\* plus or minus 1 by the length of the content
RawScore(area, confidence, length) ==
    3 + (IF area \in high_priority_areas THEN 1 ELSE 0)
      + (IF FracLess(Frac(7, 10), confidence) THEN 1 ELSE 0)
      - (IF FracLess(confidence, Frac(4, 10)) THEN 1 ELSE 0)
      + (IF length > 1000 THEN 1 ELSE 0)
      - (IF length < 200 THEN 1 ELSE 0)

\* C13: _calculate_relevancia_cacd returns an integer from 1 to 5: 1 when
\* the area is None or empty or the confidence is below the threshold, and
\* otherwise 3 + 1 (area of high priority) + 1 (confidence > 0.7) or - 1
\* (confidence < 0.4) + 1 (more than 1000 characters) or - 1 (fewer than
\* 200), brought into 1..5.
C13_RelevanceScore ==
    Returned("_calculate_relevancia_cacd") =>
        LET raw == RawScore(call.area, call.confidence, call.length) IN
        /\ returned.value \in 1..5
        /\ (call.area = None \/ call.area = <<>> \/ FracLess(call.confidence, call.threshold))
              => returned.value = 1
        /\ ~(call.area = None \/ call.area = <<>> \/ FracLess(call.confidence, call.threshold))
              => returned.value = (IF raw < 1 THEN 1 ELSE IF raw > 5 THEN 5 ELSE raw)

\* a long note of an area of high priority, classified with confidence 1,
\* has got 5 where the sum is 6
C13_Witness ==
    /\ Returned("_calculate_relevancia_cacd")
    /\ call.length > 1000
    /\ call.area = Geografia
    /\ call.confidence = Frac(1, 1)
    /\ RawScore(call.area, call.confidence, call.length) = 6
    /\ returned.value = 5

\* C14: when the taxonomy file cannot be used (it cannot be read, is no
\* YAML, is an empty document, or is a document that is no mapping),
\* CACDTaxonomyAnalyzer(...) returns without raising, with an empty taxonomy
\* and an empty keyword index, and classify_text returns no labels and
\* confidence 0.0.
C14_UnusableTaxonomy ==
    (Returned("CACDTaxonomyAnalyzer") /\ call.file.kind # "map") =>
        /\ ~returned.value.raised
        /\ returned.value.taxonomy = <<>>
        /\ returned.value.keyword_map = <<>>
        /\ returned.value.classification = NoClassification

\* the same for the files that open() or yaml.safe_load rejects
C14_RejectedTaxonomy ==
    (Returned("CACDTaxonomyAnalyzer") /\ call.file.kind \in {"unreadable", "malformed"}) =>
        /\ ~returned.value.raised
        /\ returned.value.taxonomy = <<>>
        /\ returned.value.keyword_map = <<>>
        /\ returned.value.classification = NoClassification

\* C15: scan_vault returns the number of notes in the store; every file it
\* does not pass over is loaded at most once; and a file whose leading header
\* block is no mapping (it is no YAML, or it is YAML for something else) is
\* in the store with an empty header and its whole content as body.
C15_ScanLoadsEveryFile ==
    Returned("scan_vault") =>
        LET store == returned.value.store IN
        /\ returned.value.count = Len(store)
        /\ \A i, j \in 1..Len(store) : store[i].id = store[j].id => i = j
        /\ \A i \in 1..Len(store) : Scanned(call.files, store[i].id)
        /\ \A p \in Paths :
              (Scanned(call.files, p) /\ call.files[p].head \in {"bad", "scalar"})
              => \E i \in 1..Len(store) :
                    /\ store[i].id = p
                    /\ store[i].frontmatter = EmptyHeader
                    /\ store[i].content = FileText(call.files[p])

\* the same for the header blocks that are no YAML
C15_ScanLoadsUnparsedHeader ==
    Returned("scan_vault") =>
        LET store == returned.value.store IN
        /\ returned.value.count = Len(store)
        /\ \A p \in Paths :
              (Scanned(call.files, p) /\ call.files[p].head = "bad")
              => \E i \in 1..Len(store) :
                    /\ store[i].id = p
                    /\ store[i].frontmatter = EmptyHeader
                    /\ store[i].content = FileText(call.files[p])

\* C16: _normalize_text applied to what it has returned returns the same.
C16_NormalizeIdempotent ==
    Returned("_normalize_text") => _normalize_text(returned.value) = returned.value

\* a text with accents, capitals and blanks has been normalized to another text
C16_Witness ==
    /\ Returned("_normalize_text")
    /\ \E i \in 1..Len(call.text) : call.text[i] \in DOMAIN UnaccentMap \cap DOMAIN LowerMap
    /\ \E i \in 1..Len(call.text) : call.text[i] \in Whitespace
    /\ returned.value # <<>>
    /\ returned.value # call.text

\* the triple of a classification
TripleOf(r) == <<r.area, r.subarea, r.topico>>

\* the increment that creates the counter of triple t
FirstOf(incs, t) == MinOf({i \in 1..Len(incs) : incs[i] = t})

\* C17: the triple classify_text returns has the greatest counter, and no
\* triple with the same counter had its counter created earlier, the counters
\* being created as the words of the text are read in order and, for one
\* word, in the order of its list in the keyword index.
C17_FirstBestTripleWins ==
    (Returned("classify_text") /\ Increments(CallIndex, CallWords) # <<>>) =>
        LET incs == Increments(CallIndex, CallWords)
            won == TripleOf(returned.value)
        IN  /\ \E i \in 1..Len(incs) : incs[i] = won
            /\ \A i \in 1..Len(incs) :
                  /\ Counter(incs, incs[i]) <= Counter(incs, won)
                  /\ Counter(incs, incs[i]) = Counter(incs, won)
                        => FirstOf(incs, won) <= FirstOf(incs, incs[i])

\* two triples had the greatest counter and the one created first was returned
C17_Witness ==
    /\ Returned("classify_text")
    /\ LET incs == Increments(CallIndex, CallWords) IN
       \E i, j \in 1..Len(incs) :
          /\ incs[i] # incs[j]
          /\ Counter(incs, incs[i]) = BestScore(incs)
          /\ Counter(incs, incs[j]) = BestScore(incs)
          /\ FirstOf(incs, incs[i]) < FirstOf(incs, incs[j])
          /\ TripleOf(returned.value) = incs[i]

\* the occurrences in the text of the words that point to triple t
Occurrences(kmap, words, t) ==
    Cardinality({k \in 1..Len(words) :
        \E m \in 1..Len(KeywordTriples(kmap, words[k])) : KeywordTriples(kmap, words[k])[m] = t})

\* C18: every key of the keyword index is longer than 2 characters and lists
\* no triple twice, and the counter of every triple classify_text counts is
\* the number of occurrences in the text of the words that point to it.
C18_OneIncrementPerOccurrence ==
    Returned("classify_text") =>
        /\ \A k \in 1..Len(CallIndex) :
              /\ Len(CallIndex[k].word) > 2
              /\ \A i, j \in 1..Len(CallIndex[k].triples) :
                    CallIndex[k].triples[i] = CallIndex[k].triples[j] => i = j
        /\ LET incs == Increments(CallIndex, CallWords) IN
           \A i \in 1..Len(incs) :
              Counter(incs, incs[i]) = Occurrences(CallIndex, CallWords, incs[i])

\* the same for the taxonomy of the tests, no label of which repeats a word
C18_WithoutRepeatedWords ==
    (Returned("classify_text") /\ call.taxonomy = TestTaxonomy) =>
        /\ \A k \in 1..Len(CallIndex) :
              /\ Len(CallIndex[k].word) > 2
              /\ \A i, j \in 1..Len(CallIndex[k].triples) :
                    CallIndex[k].triples[i] = CallIndex[k].triples[j] => i = j
        /\ LET incs == Increments(CallIndex, CallWords) IN
           \A i \in 1..Len(incs) :
              Counter(incs, incs[i]) = Occurrences(CallIndex, CallWords, incs[i])

\* the store and the analysed note of a _suggest_connections call
CallStore == scan_vault(<<>>, call.files)

\* the header of the note has an area equal to the suggested area, or a
\* subarea equal to the suggested subarea
SharesLabel(other, area, subarea) ==
    \/ other.frontmatter["area"].type = "str" /\ other.frontmatter["area"].v = area
    \/ other.frontmatter["subarea"].type = "str" /\ other.frontmatter["subarea"].v = subarea

\* C19: every title _suggest_connections lists is the title of a loaded note,
\* not the analysed one, whose header has the suggested area as its area or
\* the suggested subarea as its subarea, and the titles come in the order of
\* the store; a note with neither field in its header is not listed.
C19_ConnectionsShareALabel ==
    (Returned("_suggest_connections") /\ call.note <= Len(CallStore)) =>
        \E at \in [1..Len(returned.value) -> 1..Len(CallStore)] :
            /\ \A k, m \in 1..Len(returned.value) : k < m => at[k] < at[m]
            /\ \A k \in 1..Len(returned.value) :
                  /\ CallStore[at[k]].id # CallStore[call.note].id
                  /\ CallStore[at[k]].title = returned.value[k]
                  /\ SharesLabel(CallStore[at[k]], call.area, call.subarea)

\* the same when the suggestion has both an area and a subarea
C19_BothLabelsSuggested ==
    (/\ Returned("_suggest_connections")
     /\ call.note <= Len(CallStore)
     /\ call.area # None
     /\ call.subarea # None) =>
        \E at \in [1..Len(returned.value) -> 1..Len(CallStore)] :
            /\ \A k, m \in 1..Len(returned.value) : k < m => at[k] < at[m]
            /\ \A k \in 1..Len(returned.value) :
                  /\ CallStore[at[k]].id # CallStore[call.note].id
                  /\ CallStore[at[k]].title = returned.value[k]
                  /\ SharesLabel(CallStore[at[k]], call.area, call.subarea)

\* C20: generate_tags returns at most config['max_tags'] tags and
\* _suggest_connections at most config['conexoes_max'] titles, whatever the
\* two limits are set to.
C20_ListsWithinConfiguredBounds ==
    /\ Returned("generate_tags") => Len(returned.value) <= call.max_tags
    /\ Returned("_suggest_connections") => Len(returned.value) <= call.conexoes_max

\* the same for the limits of the default configuration and for every limit
\* on connections that is not 0
C20_WithinDefaultBounds ==
    /\ (Returned("generate_tags") /\ call.max_tags = 5) => Len(returned.value) <= call.max_tags
    /\ (Returned("_suggest_connections") /\ call.conexoes_max > 0)
          => Len(returned.value) <= call.conexoes_max

(***************************************************************************)
(* Properties: the files the program writes                                *)
(***************************************************************************)
\* the files the program itself writes under the vault root
SystemFiles == NotePaths \ UserNotes

\* C21: whatever runs came before, the store a run's scan_vault fills holds
\* no note loaded from a file the program wrote (the review file, its
\* .processed variant, the report, a backup), and the review file an analysis
\* writes has no section for such a file.
C21_OwnFilesAreNotNotes ==
    /\ \A i \in 1..Len(notes) : notes[i].file_path \notin SystemFiles
    /\ (result.mode = "analyze" /\ result.ok) =>
          \A p \in SystemFiles : ~Contains(files[feedback_file].rest, FileLine(p))
====
